---- MODULE Spec2Model ----
(***************************************************************************)
(* Model of the remediation patch stream of the RCA agent                  *)
(* (rca-agent/src/agent/patch.py): the field-path mini-language            *)
(* (parse_resource_ref, parse_field_path, apply_change), the binding       *)
(* lookup and the generator stream_patch with the events it yields and the *)
(* gateway (MCP) calls it makes.                                           *)
(*                                                                         *)
(* Strings of the program are sequences of one-character strings, so that  *)
(* splitting and the array-selector regular expression are computed as the *)
(* code computes them.  JSON documents are trees of nodes [t, v, c].       *)
(***************************************************************************)
EXTENDS Integers, Sequences, FiniteSets, TLC

(***************************************************************************)
(* String literals of the program and of the inputs.                       *)
(***************************************************************************)
sSpec == <<"s","p","e","c">>
sWorkloadOverrides == <<"w","o","r","k","l","o","a","d","O","v","e","r","r","i","d","e","s">>
sComponentTypeEnvOverrides == <<"c","o","m","p","o","n","e","n","t","T","y","p","e","E","n","v","O","v","e","r","r","i","d","e","s">>
sTraitOverrides == <<"t","r","a","i","t","O","v","e","r","r","i","d","e","s">>
sReleaseBinding == <<"R","e","l","e","a","s","e","B","i","n","d","i","n","g">>
sDeployment == <<"D","e","p","l","o","y","m","e","n","t">>
sStatefulSet == <<"S","t","a","t","e","f","u","l","S","e","t">>
sName == <<"n","a","m","e">>
sKey == <<"k","e","y">>
sReleaseName == <<"r","e","l","e","a","s","e","N","a","m","e">>
sEnv == <<"e","n","v">>
sValue == <<"v","a","l","u","e">>
sNotspec == <<"n","o","t","s","p","e","c">>
sUnknownCategory == <<"u","n","k","n","o","w","n","C","a","t","e","g","o","r","y">>

\* The characters matched by \w of the regular expression.
WordChars == {"a","b","c","d","e","f","g","h","i","j","k","l","m","n","o","p","q","r","s","t","u","v","w","x","y","z","A","B","C","D","E","F","G","H","I","J","K","L","M","N","O","P","Q","R","S","T","U","V","W","X","Y","Z","0","1","2","3","4","5","6","7","8","9","_"}

\* The whitespace str.strip() and str.split(None) act on.
SpaceChars == {" "}

\* The camelCase override categories and their MCP parameter names.
OVERRIDE_PARAM_MAP ==
    << [key |-> sWorkloadOverrides, param |-> "workload_overrides"],
       [key |-> sComponentTypeEnvOverrides, param |-> "component_type_env_overrides"],
       [key |-> sTraitOverrides, param |-> "trait_overrides"] >>

OverrideKeys == {OVERRIDE_PARAM_MAP[i].key : i \in 1..Len(OVERRIDE_PARAM_MAP)}

ParamOf(override_key) ==
    OVERRIDE_PARAM_MAP[CHOOSE i \in 1..Len(OVERRIDE_PARAM_MAP) :
                          OVERRIDE_PARAM_MAP[i].key = override_key].param

(***************************************************************************)
(* Generic string helpers: str.split("."), str.strip(), str.split(None, 1) *)
(***************************************************************************)
FirstIndex(s, chars) ==
    IF \E i \in 1..Len(s) : s[i] \in chars
    THEN CHOOSE i \in 1..Len(s) : s[i] \in chars /\ \A j \in 1..(i-1) : s[j] \notin chars
    ELSE 0

RECURSIVE SplitOn(_, _)
SplitOn(s, sep) ==
    LET i == FirstIndex(s, {sep})
    IN  IF i = 0 THEN <<s>>
        ELSE <<SubSeq(s, 1, i-1)>> \o SplitOn(SubSeq(s, i+1, Len(s)), sep)

RECURSIVE LStrip(_)
LStrip(s) ==
    IF s # <<>> /\ Head(s) \in SpaceChars THEN LStrip(Tail(s)) ELSE s

RECURSIVE RStrip(_)
RStrip(s) ==
    IF s # <<>> /\ s[Len(s)] \in SpaceChars THEN RStrip(SubSeq(s, 1, Len(s)-1)) ELSE s

Strip(s) == RStrip(LStrip(s))

\* resource.strip().split(None, 1): at most two parts, cut at the first
\* whitespace run.
SplitWhitespaceOnce(resource) ==
    LET s == Strip(resource)
        i == FirstIndex(s, SpaceChars)
    IN  IF s = <<>> THEN <<>>
        ELSE IF i = 0 THEN <<s>>
        ELSE <<SubSeq(s, 1, i-1), LStrip(SubSeq(s, i, Len(s)))>>

(***************************************************************************)
(* parse_resource_ref                                                       *)
(***************************************************************************)
parse_resource_ref(resource) ==
    LET parts == SplitWhitespaceOnce(resource)
    IN  IF Len(parts) # 2
        THEN [ok |-> FALSE, err |-> "invalid_resource_reference", kind |-> <<>>, name |-> <<>>]
        ELSE [ok |-> TRUE, err |-> "", kind |-> parts[1], name |-> parts[2]]

(***************************************************************************)
(* The array selector regular expression ^(\w+)\[(\w+)=([^\]]+)\]$ and     *)
(* parse_field_path.  A segment is a record: sel = FALSE for a plain key    *)
(* f, sel = TRUE for the selector f[k=v].                                   *)
(***************************************************************************)
AllWord(s) == s # <<>> /\ \A i \in 1..Len(s) : s[i] \in WordChars

KeySeg(f) == [sel |-> FALSE, f |-> f, k |-> <<>>, v |-> <<>>]
SelSeg(f, k, v) == [sel |-> TRUE, f |-> f, k |-> k, v |-> v]

\* ($ also matches just before one final newline, so the token may end "]\n".)
ARRAY_SELECTOR_RE(seg) ==
    LET n == IF seg # <<>> /\ seg[Len(seg)] = "\n" THEN Len(seg) - 1 ELSE Len(seg)
        p == FirstIndex(seg, {"["})
        rest == IF p = 0 THEN <<>> ELSE SubSeq(seg, p+1, n)
        q0 == FirstIndex(rest, {"="})
        q == p + q0
        val == IF p = 0 \/ q0 = 0 THEN <<>> ELSE SubSeq(seg, q+1, n-1)
    IN  IF /\ p > 1
           /\ q0 > 1
           /\ AllWord(SubSeq(seg, 1, p-1))
           /\ AllWord(SubSeq(seg, p+1, q-1))
           /\ n > 0
           /\ seg[n] = "]"
           /\ val # <<>>
           /\ \A i \in 1..Len(val) : val[i] # "]"
        THEN [match |-> TRUE, seg |-> SelSeg(SubSeq(seg, 1, p-1), SubSeq(seg, p+1, q-1), val)]
        ELSE [match |-> FALSE, seg |-> KeySeg(seg)]

parse_field_path(field_path) ==
    LET segments == SplitOn(field_path, ".")
    IN  IF Len(segments) < 3 \/ segments[1] # sSpec
        THEN [ok |-> FALSE, err |-> "invalid_field_path", override_key |-> <<>>, path_segments |-> <<>>]
        ELSE IF segments[2] \notin OverrideKeys
        THEN [ok |-> FALSE, err |-> "unsupported_override_category", override_key |-> <<>>, path_segments |-> <<>>]
        ELSE [ok |-> TRUE, err |-> "", override_key |-> segments[2],
              path_segments |-> [i \in 1..(Len(segments)-2) |-> ARRAY_SELECTOR_RE(segments[i+2]).seg]]

(***************************************************************************)
(* JSON documents.  A node is a string leaf, a mapping or a list; a        *)
(* mapping's c is its <<key, node>> pairs in insertion order, a list's c   *)
(* its items as <<"", node>> pairs.                                         *)
(***************************************************************************)
StrNode(s) == [t |-> "str", v |-> s, c |-> <<>>]
MapNode(pairs) == [t |-> "map", v |-> <<>>, c |-> pairs]
ListNode(items) == [t |-> "list", v |-> <<>>, c |-> [i \in 1..Len(items) |-> <<<<>>, items[i]>>]]
EmptyMap == MapNode(<<>>)
EmptyList == ListNode(<<>>)

KeyIndex(node, key) ==
    IF \E i \in 1..Len(node.c) : node.c[i][1] = key
    THEN CHOOSE i \in 1..Len(node.c) : node.c[i][1] = key
    ELSE 0

HasKey(node, key) == node.t = "map" /\ KeyIndex(node, key) # 0

\* dict.get(key, default)
MapGet(node, key, default) ==
    IF HasKey(node, key) THEN node.c[KeyIndex(node, key)][2] ELSE default

\* dict[key] = child: an existing key keeps its place, a new one goes last.
MapSet(node, key, child) ==
    IF HasKey(node, key)
    THEN [node EXCEPT !.c[KeyIndex(node, key)] = <<key, child>>]
    ELSE [node EXCEPT !.c = Append(node.c, <<key, child>>)]

\* next((item for item in arr if item.get(k) == val), None): the index of
\* the first matching item, 0 for None, -1 when an item before any match is
\* not a mapping (item.get raises AttributeError).
RECURSIVE FindEntryFrom(_, _, _, _)
FindEntryFrom(arr, k, val, i) ==
    IF i > Len(arr.c) THEN 0
    ELSE LET item == arr.c[i][2]
         IN  IF item.t # "map" THEN -1
             ELSE IF MapGet(item, k, EmptyMap) = StrNode(val) THEN i
             ELSE FindEntryFrom(arr, k, val, i + 1)

FindEntry(arr, k, val) == FindEntryFrom(arr, k, val, 1)

AltKeysNameFirst(match_key) == SelectSeq(<<sName, sKey>>, LAMBDA a : a # match_key)

\* The fallback over ("key", "name"), skipping the one equal to match_key.
AltKeys(match_key) == SelectSeq(<<sKey, sName>>, LAMBDA a : a # match_key)

RECURSIVE FindAlt(_, _, _)
FindAlt(arr, alts, val) ==
    IF alts = <<>> THEN 0
    ELSE LET r == FindEntry(arr, Head(alts), val)
         IN  IF r # 0 THEN r ELSE FindAlt(arr, Tail(alts), val)

LocateEntry(arr, match_key, match_val) ==
    LET r == FindEntry(arr, match_key, match_val)
    IN  IF r # 0 THEN r ELSE FindAlt(arr, AltKeys(match_key), match_val)

(***************************************************************************)
(* apply_change: the result is the document as the call leaves it (the     *)
(* code mutates in place, also on the way to an exception) and whether it  *)
(* returned (ok) or raised (err).                                           *)
(***************************************************************************)
RECURSIVE apply_change(_, _, _)
apply_change(override, segments, value) ==
    IF segments = <<>> THEN [ok |-> TRUE, err |-> "", doc |-> override]
    ELSE
    LET seg == Head(segments)
        is_last == Len(segments) = 1
    IN  IF override.t # "map"
        THEN [ok |-> FALSE, err |-> "type_error", doc |-> override]
        ELSE IF seg.sel
        THEN LET had == HasKey(override, seg.f)
                 arr == MapGet(override, seg.f, EmptyList)
                 cur1 == IF had THEN override ELSE MapSet(override, seg.f, EmptyList)
                 found == IF arr.t = "list" THEN LocateEntry(arr, seg.k, seg.v) ELSE -1
                 arr2 == IF found = 0
                         THEN [arr EXCEPT !.c = Append(arr.c, <<<<>>, MapNode(<< <<seg.k, StrNode(seg.v)>> >>)>>)]
                         ELSE arr
                 idx == IF found = 0 THEN Len(arr2.c) ELSE found
             IN  IF found = -1
                 THEN [ok |-> FALSE, err |-> "type_error", doc |-> cur1]
                 ELSE IF is_last
                 THEN [ok |-> FALSE, err |-> "array_selector_terminal",
                       doc |-> MapSet(cur1, seg.f, arr2)]
                 ELSE LET r == apply_change(arr2.c[idx][2], Tail(segments), value)
                      IN  [ok |-> r.ok, err |-> r.err,
                           doc |-> MapSet(cur1, seg.f, [arr2 EXCEPT !.c[idx] = <<<<>>, r.doc>>])]
        ELSE IF is_last
        THEN [ok |-> TRUE, err |-> "", doc |-> MapSet(override, seg.f, StrNode(value))]
        ELSE LET child == MapGet(override, seg.f, EmptyMap)
                 r == apply_change(child, Tail(segments), value)
             IN  [ok |-> r.ok, err |-> r.err, doc |-> MapSet(override, seg.f, r.doc)]

(***************************************************************************)
(* _build_binding_lookup and the gateway it reads.  The gateway holds two  *)
(* components, each with one release binding; b1 carries a workload        *)
(* override document, b2 none.                                              *)
(***************************************************************************)
ScopeNamespace == "ns"
ScopeProject == "proj"
ScopeEnvironment == "dev"

sB1 == <<"b","1">>
sB2 == <<"b","2">>
sB9 == <<"b","9">>
sR1 == <<"r","1">>
sR2 == <<"r","2">>

GatewayComponents == <<"c1", "c2">>

BindingB1 ==
    MapNode(<< <<sName, StrNode(sB1)>>,
               <<sReleaseName, StrNode(sR1)>>,
               <<sWorkloadOverrides, MapNode(<< << <<"a">>, StrNode(<<"0">>)>>,
                                                << <<"z">>, StrNode(<<"9">>)>> >>)>> >>)

BindingB2 ==
    MapNode(<< <<sName, StrNode(sB2)>>,
               <<sReleaseName, StrNode(sR2)>> >>)

\* What the gateway holds before the run: per binding, its component and
\* its document.
GatewayInit ==
    << [component |-> "c1", doc |-> BindingB1],
       [component |-> "c2", doc |-> BindingB2] >>

\* list_release_bindings(component): the documents of its bindings.
GatewayBindings(gw, component) ==
    LET own == SelectSeq(gw, LAMBDA b : b.component = component)
    IN  [i \in 1..Len(own) |-> own[i].doc]

\* patch_release_binding fully replaces each override parameter it is given.
RECURSIVE ReplaceOverrides(_, _)
ReplaceOverrides(doc, overrides) ==
    IF overrides = <<>> THEN doc
    ELSE LET param == Head(overrides)[1]
             key == (CHOOSE i \in 1..Len(OVERRIDE_PARAM_MAP) :
                        OVERRIDE_PARAM_MAP[i].param = param)
         IN  ReplaceOverrides(MapSet(doc, OVERRIDE_PARAM_MAP[key].key, Head(overrides)[2]),
                              Tail(overrides))

GatewayPatch(gw, binding_name, overrides) ==
    [i \in 1..Len(gw) |->
        IF MapGet(gw[i].doc, sName, EmptyMap) = StrNode(binding_name)
        THEN [gw[i] EXCEPT !.doc = ReplaceOverrides(@, overrides)]
        ELSE gw[i]]

BindingInfo(component_name, release_name, raw) ==
    [name |-> MapGet(raw, sName, EmptyMap).v,
     component_name |-> component_name,
     release_name |-> release_name,
     raw |-> raw]

\* lookup[binding["name"]] = BindingInfo(...): a later binding of the same
\* name replaces the earlier one.
LookupPut(lookup, info) ==
    IF \E i \in 1..Len(lookup) : lookup[i].name = info.name
    THEN [i \in 1..Len(lookup) |-> IF lookup[i].name = info.name THEN info ELSE lookup[i]]
    ELSE Append(lookup, info)

RECURSIVE LookupPutAll(_, _, _)
LookupPutAll(lookup, comp_name, bindings) ==
    IF bindings = <<>> THEN lookup
    ELSE LookupPutAll(
            LookupPut(lookup,
                      BindingInfo(comp_name, MapGet(Head(bindings), sReleaseName, EmptyMap).v,
                                  Head(bindings))),
            comp_name, Tail(bindings))

LookupHas(lookup, name) == \E i \in 1..Len(lookup) : lookup[i].name = name

\* binding_lookup.get(name)
LookupGet(lookup, name) == lookup[CHOOSE i \in 1..Len(lookup) : lookup[i].name = name]

\* Mutation: overrides_by_param holds the binding's own override documents
\* instead of deep copies, so what apply_change does to them shows in the
\* lookup (a parameter the binding lacks starts from a fresh {} either way).
LookupSharing(lookup, name, overrides) ==
    [i \in 1..Len(lookup) |->
        IF lookup[i].name = name
        THEN [lookup[i] EXCEPT !.raw =
                ReplaceOverrides(@, SelectSeq(overrides,
                    LAMBDA o : \E m \in 1..Len(OVERRIDE_PARAM_MAP) :
                        /\ OVERRIDE_PARAM_MAP[m].param = o[1]
                        /\ HasKey(lookup[i].raw, OVERRIDE_PARAM_MAP[m].key)))]
        ELSE lookup[i]]

\* line 274, copy.deepcopy(existing): the documents apply_change works on
\* share nothing with the lookup, which is as it was after the group.
LookupAfterGroup(lookup, name, overrides) == lookup

(***************************************************************************)
(* The body of one (kind, name) group: the override documents built from    *)
(* the binding's current ones (lines 270-275).  overrides is the dict      *)
(* overrides_by_param as <<param, document>> pairs in insertion order.      *)
(***************************************************************************)
ParamIndex(overrides, param) ==
    IF \E i \in 1..Len(overrides) : overrides[i][1] = param
    THEN CHOOSE i \in 1..Len(overrides) : overrides[i][1] = param
    ELSE 0

\* Mutation: every change is applied to a fresh copy of the binding's
\* document, which replaces the parameter's entry.
RECURSIVE BuildOverridesReseeding(_, _, _)
BuildOverridesReseeding(info, changes, overrides) ==
    IF changes = <<>> THEN [ok |-> TRUE, err |-> "", overrides |-> overrides]
    ELSE LET ch == Head(changes)
             seeded == IF ParamIndex(overrides, ch.param_name) = 0
                       THEN Append(overrides,
                                   <<ch.param_name, MapGet(info.raw, ch.override_key, EmptyMap)>>)
                       ELSE overrides
             i == ParamIndex(seeded, ch.param_name)
             r == apply_change(MapGet(info.raw, ch.override_key, EmptyMap),
                               ch.path_segments, ch.value)
         IN  IF r.ok
             THEN BuildOverridesReseeding(info, Tail(changes),
                                          [seeded EXCEPT ![i] = <<ch.param_name, r.doc>>])
             ELSE [ok |-> FALSE, err |-> r.err, overrides |-> seeded]

RECURSIVE BuildOverrides(_, _, _)
BuildOverrides(info, changes, overrides) ==
    IF changes = <<>> THEN [ok |-> TRUE, err |-> "", overrides |-> overrides]
    ELSE LET ch == Head(changes)
             seeded == IF ParamIndex(overrides, ch.param_name) = 0
                       THEN Append(overrides,
                                   <<ch.param_name, MapGet(info.raw, ch.override_key, EmptyMap)>>)
                       ELSE overrides
             i == ParamIndex(seeded, ch.param_name)
             r == apply_change(seeded[i][2], ch.path_segments, ch.value)
         IN  IF r.ok
             THEN BuildOverrides(info, Tail(changes),
                                 [seeded EXCEPT ![i] = <<ch.param_name, r.doc>>])
             ELSE [ok |-> FALSE, err |-> r.err, overrides |-> seeded]

\* grouped[(kind, name)].append(...): groups keep first-seen order.
GroupIndex(grouped, kind, name) ==
    IF \E i \in 1..Len(grouped) : grouped[i].kind = kind /\ grouped[i].name = name
    THEN CHOOSE i \in 1..Len(grouped) : grouped[i].kind = kind /\ grouped[i].name = name
    ELSE 0

GroupAppend(grouped, kind, name, item) ==
    LET i == GroupIndex(grouped, kind, name)
    IN  IF i = 0
        THEN Append(grouped, [kind |-> kind, name |-> name, changes |-> <<item>>])
        ELSE [grouped EXCEPT ![i].changes = Append(@, item)]

(***************************************************************************)
(* Inputs: patch_context.actions.  A raw action is a mapping with          *)
(* description, status, changes and, optionally, the caller's index.  A    *)
(* status outside the ActionStatus enumeration makes the RemediationAction constructor *)
(* raise.                                                                   *)
(***************************************************************************)
MaxActions == 2

Path(tokens) ==
    LET RECURSIVE J(_)
        J(ts) == IF Len(ts) = 1 THEN ts[1] ELSE ts[1] \o <<".">> \o J(Tail(ts))
    IN  J(tokens)

Ref(kind, name) == kind \o <<" ">> \o name

Change(resource, field_path, value) ==
    [resource |-> resource, field_path |-> field_path, value |-> value]

chA == Change(Ref(sReleaseBinding, sB1), Path(<<sSpec, sWorkloadOverrides, <<"a">>>>), <<"1">>)
chC == Change(Ref(sReleaseBinding, sB1), Path(<<sSpec, sWorkloadOverrides, <<"c">>>>), <<"2">>)
chT == Change(Ref(sReleaseBinding, sB1), Path(<<sSpec, sTraitOverrides, <<"t">>>>), <<"1">>)
chA5 == Change(Ref(sReleaseBinding, sB1), Path(<<sSpec, sWorkloadOverrides, <<"a">>>>), <<"5">>)
chB2 == Change(Ref(sReleaseBinding, sB2), Path(<<sSpec, sTraitOverrides, <<"a">>>>), <<"1">>)
chMiss == Change(Ref(sReleaseBinding, sB9), Path(<<sSpec, sWorkloadOverrides, <<"a">>>>), <<"1">>)
chSkip == Change(Ref(sDeployment, <<"d">>), Path(<<sSpec, sWorkloadOverrides, <<"a">>>>), <<"1">>)
chSkip2 == Change(Ref(sStatefulSet, <<"s">>), Path(<<sSpec, sWorkloadOverrides, <<"c">>>>), <<"3">>)
chMiss2 == Change(Ref(sReleaseBinding, sB9), Path(<<sSpec, sTraitOverrides, <<"c">>>>), <<"2">>)
chBadRef == Change(sReleaseBinding, Path(<<sSpec, sWorkloadOverrides, <<"a">>>>), <<"1">>)
chBadPath == Change(Ref(sReleaseBinding, sB1), Path(<<sNotspec, <<"x">>, <<"y">>>>), <<"1">>)
chBadCat == Change(Ref(sReleaseBinding, sB1), Path(<<sSpec, sUnknownCategory, <<"x">>>>), <<"1">>)
chTerm == Change(Ref(sReleaseBinding, sB1),
                 Path(<<sSpec, sWorkloadOverrides, sEnv \o <<"[">> \o sKey \o <<"=", "K", "]">>>>), <<"1">>)

RawAction(description, status, changes, has_index, index) ==
    [description |-> description, status |-> status, changes |-> changes,
     has_index |-> has_index, index |-> index]

ActionPool ==
    { RawAction("set a", "revised", <<chA>>, FALSE, 0),
      RawAction("set c", "revised", <<chC>>, TRUE, 7),
      RawAction("set a, t, c, a", "revised", <<chA, chT, chC, chA5>>, FALSE, 0),
      RawAction("two bindings", "revised", <<chA, chB2>>, TRUE, 4),
      RawAction("revised, no changes", "revised", <<>>, FALSE, 0),
      RawAction("unchanged", "unchanged", <<>>, TRUE, 5),
      RawAction("unchanged with changes", "unchanged", <<chA>>, FALSE, 0),
      RawAction("missing binding", "revised", <<chMiss>>, FALSE, 0),
      RawAction("missing then b2", "revised", <<chMiss, chB2, chMiss2>>, FALSE, 0),
      RawAction("deployment only", "revised", <<chSkip>>, FALSE, 0),
      RawAction("deployment and a", "revised", <<chSkip, chA, chSkip2>>, TRUE, 3),
      RawAction("bad reference", "revised", <<chB2, chBadRef>>, FALSE, 0),
      RawAction("bad path", "revised", <<chBadPath, chB2>>, FALSE, 0),
      RawAction("bad category", "revised", <<chSkip, chBadCat>>, FALSE, 0),
      RawAction("terminal selector", "revised", <<chB2, chTerm>>, FALSE, 0),
      RawAction("not an action", "bogus", <<>>, FALSE, 0) }

Inputs == UNION {[1..n -> ActionPool] : n \in 0..MaxActions}

\* the RemediationAction constructor succeeds
Valid(raw) == raw.status \in {"unchanged", "revised"}

\* Mutation: a REVISED action is dispatched whether or not it has changes.
DispatchableIgnoringChanges(raw) == raw.status = "revised"

\* parsed.status == ActionStatus.REVISED and parsed.changes
Dispatchable(raw) == raw.status = "revised" /\ raw.changes # <<>>

\* Mutation: the caller's index is ignored.
IndexOfPosition(raw, pos) == pos - 1

\* idx = raw.get("index", i), i counted from 0 by enumerate
IndexOf(raw, pos) == IF raw.has_index THEN raw.index ELSE pos - 1

\* The pairing loop of lines 162-166 over the actions from position pos on.
RECURSIVE PairFrom(_, _)
PairFrom(actions, pos) ==
    IF pos > Len(actions) THEN <<>>
    ELSE (IF Dispatchable(actions[pos])
          THEN <<[idx |-> IndexOf(actions[pos], pos), action |-> actions[pos]]>>
          ELSE <<>>) \o PairFrom(actions, pos + 1)

IndexedActions(actions) == PairFrom(actions, 1)

(***************************************************************************)
(* Events (_emit) and gateway calls.                                        *)
(***************************************************************************)
Text(k, s, x, y) == [k |-> k, s |-> s, x |-> x, y |-> y]
NoText == Text("", <<>>, 0, 0)

Event(type, index, action, status, text) ==
    [type |-> type, index |-> index, action |-> action, status |-> status, text |-> text]

ErrorEvent(k, s) == Event("error", 0, "", "", Text(k, s, 0, 0))
PatchStarted == Event("patch_started", 0, "", "", NoText)
PatchProgress(index, action) == Event("patch_progress", index, action, "applying", NoText)
PatchResult(index, action, status, k, s) ==
    Event("patch_result", index, action, status, Text(k, s, 0, 0))
PatchDone(x, y) == Event("patch_done", 0, "", "", Text("applied", <<>>, x, y))
PatchDoneNoRevised == Event("patch_done", 0, "", "", Text("no_revised_actions", <<>>, 0, 0))

REQUIRED == <<"list_components", "list_release_bindings", "patch_release_binding">>

\* Mutation: only the first missing tool is reported.
MissingFirstOnly(offered) ==
    LET all == SelectSeq(REQUIRED, LAMBDA n : n \notin offered)
    IN  IF all = <<>> THEN <<>> ELSE <<Head(all)>>

\* missing = [n for n in required if n not in tools_by_name]
Missing(tools_by_name) == SelectSeq(REQUIRED, LAMBDA n : n \notin tools_by_name)

\* One invocation of a gateway tool: its arguments, who made it (the action
\* and group being processed, 0 during setup) and whether it returned.
Call(tool, component_name, binding_name, release_name, overrides, k, g, ok) ==
    [tool |-> tool, namespace_name |-> ScopeNamespace, project_name |-> ScopeProject,
     environment |-> ScopeEnvironment, component_name |-> component_name,
     binding_name |-> binding_name, release_name |-> release_name,
     overrides |-> overrides, k |-> k, g |-> g, ok |-> ok]

(***************************************************************************)
(* State of one run of stream_patch.                                        *)
(***************************************************************************)
VARIABLES
    input,            \* patch_context.actions
    pc,               \* where the generator stands
    indexed_actions,  \* the (idx, action) pairs to dispatch
    binding_lookup,   \* name -> BindingInfo, as built by _build_binding_lookup
    comp,             \* the component _build_binding_lookup is at
    events,           \* what the generator has yielded
    calls,            \* the gateway invocations made
    success_count,
    total,
    cur,              \* position in indexed_actions
    chg,              \* position in the current action's changes
    grouped,          \* the (kind, name) groups of the current action
    grp,              \* position in grouped
    gateway,          \* the bindings the gateway holds
    tools_by_name     \* the names of the tools get_tools returned

patch_vars == <<input, pc, indexed_actions, binding_lookup, comp, events, calls,
                success_count, total, cur, chg, grouped, grp, gateway, tools_by_name>>

(***************************************************************************)
(* State of one ChatResponseParser (core/stream_parser.py) and of one      *)
(* exercise of the field-path functions.  The three parts of the module    *)
(* run apart: each specification moves its own variables and leaves the    *)
(* others as constructed.                                                   *)
(***************************************************************************)
VARIABLES
    stream,           \* the text the model streams, chunk by chunk
    fed,              \* how many of its characters were pushed
    _buffer,
    _message,
    _actions,
    last              \* the latest push: its chunk, decode and outcome

parser_vars == <<stream, fed, _buffer, _message, _actions, last>>

VARIABLES
    arg_field_path,   \* the field_path given to parse_field_path
    arg_value,        \* the value given to apply_change
    document,         \* the override document apply_change mutates
    parse_result,     \* what parse_field_path returned or raised
    apply_result,     \* what the latest apply_change returned or raised
    before,           \* the document before the latest apply_change
    runs              \* how many times apply_change ran

engine_vars == <<arg_field_path, arg_value, document, parse_result, apply_result,
                 before, runs>>

(***************************************************************************)
(* State of several runs of stream_patch against one gateway.               *)
(***************************************************************************)
VARIABLES
    c_gateway,        \* the bindings the gateway holds
    c_calls,          \* the patch_release_binding calls it received, in order
    c_run             \* per run: where it stands, its changes, its lookup

conc_vars == <<c_gateway, c_calls, c_run>>

(***************************************************************************)
(* State of one chat stream (its parser is the parser above).               *)
(***************************************************************************)
VARIABLES
    chat_pc,          \* where stream_chat stands
    chat_events       \* the events it has emitted, in order

chat_vars == <<chat_pc, chat_events>>

(***************************************************************************)
(* State of one call into the output transformer.                           *)
(***************************************************************************)
VARIABLES
    xf_in,            \* the function called and its arguments
    xf_out            \* what it returned, or that it raised

xf_vars == <<xf_in, xf_out>>

rest_vars == <<conc_vars, chat_vars, xf_vars>>

other_vars == <<parser_vars, engine_vars, rest_vars>>

vars == <<patch_vars, parser_vars, engine_vars, rest_vars>>

NoPush == [pushed |-> FALSE]

\* ChatResponseParser.__init__ (lines 25-28), nothing streamed
ParserIdle ==
    /\ stream = <<>>
    /\ fed = 0
    /\ _buffer = <<>>
    /\ _message = StrNode(<<>>)
    /\ _actions = EmptyList
    /\ last = NoPush

EngineIdle ==
    /\ arg_field_path = <<>>
    /\ arg_value = <<>>
    /\ document = EmptyMap
    /\ parse_result = [called |-> FALSE]
    /\ apply_result = <<>>
    /\ before = <<>>
    /\ runs = 0

ConcIdle ==
    /\ c_gateway = <<>>
    /\ c_calls = <<>>
    /\ c_run = <<>>

ChatIdle == chat_pc = "idle" /\ chat_events = <<>>

XfIdle == xf_in = [kind |-> "none"] /\ xf_out = [done |-> FALSE]

RestIdle == ConcIdle /\ ChatIdle /\ XfIdle

Init ==
    /\ input \in Inputs
    /\ pc = "start"
    /\ indexed_actions = <<>>
    /\ binding_lookup = <<>>
    /\ comp = 0
    /\ events = <<>>
    /\ calls = <<>>
    /\ success_count = 0
    /\ total = 0
    /\ cur = 0
    /\ chg = 0
    /\ grouped = <<>>
    /\ grp = 0
    /\ gateway = GatewayInit
    /\ tools_by_name = {}
    /\ ParserIdle
    /\ EngineIdle
    /\ RestIdle

Emit(e) == events' = Append(events, e)
Invoke(c) == calls' = Append(calls, c)

CurIdx == indexed_actions[cur].idx
CurAction == indexed_actions[cur].action

(***************************************************************************)
(* stream_patch, one action per stretch of code between two suspension     *)
(* points (a yield or an awaited gateway call) or loop iterations.          *)
(***************************************************************************)
\* lines 154-159: the input does not parse
ParseFail ==
    /\ pc = "start"
    /\ \E i \in 1..Len(input) : ~Valid(input[i])
    /\ Emit(ErrorEvent("invalid_patch_actions", <<>>))
    /\ pc' = "end"
    /\ UNCHANGED <<other_vars, input, indexed_actions, binding_lookup, comp, calls, success_count,
                   total, cur, chg, grouped, grp, gateway, tools_by_name>>

\* lines 161-169: nothing to dispatch
FilterEmpty ==
    /\ pc = "start"
    /\ \A i \in 1..Len(input) : Valid(input[i])
    /\ IndexedActions(input) = <<>>
    /\ Emit(PatchStarted)
    /\ pc' = "no_revised"
    /\ UNCHANGED <<other_vars, input, indexed_actions, binding_lookup, comp, calls, success_count,
                   total, cur, chg, grouped, grp, gateway, tools_by_name>>

\* Mutation: the run falls through to the general summary.
NoRevisedAsApplied ==
    /\ pc = "no_revised"
    /\ Emit(PatchDone(success_count, total))
    /\ pc' = "end"
    /\ UNCHANGED <<other_vars, input, indexed_actions, binding_lookup, comp, calls, success_count,
                   total, cur, chg, grouped, grp, gateway, tools_by_name>>

\* lines 170-171
NoRevised ==
    /\ pc = "no_revised"
    /\ Emit(PatchDoneNoRevised)
    /\ pc' = "end"
    /\ UNCHANGED <<other_vars, input, indexed_actions, binding_lookup, comp, calls, success_count,
                   total, cur, chg, grouped, grp, gateway, tools_by_name>>

\* lines 161-168: some action is REVISED with changes
FilterSome ==
    /\ pc = "start"
    /\ \A i \in 1..Len(input) : Valid(input[i])
    /\ IndexedActions(input) # <<>>
    /\ indexed_actions' = IndexedActions(input)
    /\ pc' = "connect"
    /\ UNCHANGED <<other_vars, input, binding_lookup, comp, events, calls, success_count,
                   total, cur, chg, grouped, grp, gateway, tools_by_name>>

\* lines 174-178, 195-198: the client or get_tools raises
ConnectFail ==
    /\ pc = "connect"
    /\ Invoke(Call("get_tools", "", <<>>, <<>>, <<>>, 0, 0, FALSE))
    /\ Emit(ErrorEvent("failed_to_connect", <<>>))
    /\ pc' = "end"
    /\ UNCHANGED <<other_vars, input, indexed_actions, binding_lookup, comp, success_count,
                   total, cur, chg, grouped, grp, gateway, tools_by_name>>

\* lines 178-190: a required tool is not offered
ToolsMissing ==
    /\ pc = "connect"
    /\ \E offered \in SUBSET {REQUIRED[i] : i \in 1..Len(REQUIRED)} :
          /\ Missing(offered) # <<>>
          /\ tools_by_name' = offered
          /\ Emit(ErrorEvent("tools_not_available", Missing(offered)))
    /\ Invoke(Call("get_tools", "", <<>>, <<>>, <<>>, 0, 0, TRUE))
    /\ pc' = "end"
    /\ UNCHANGED <<other_vars, input, indexed_actions, binding_lookup, comp, success_count,
                   total, cur, chg, grouped, grp, gateway>>

\* lines 178-194: all required tools are offered
ToolsAvailable ==
    /\ pc = "connect"
    /\ Invoke(Call("get_tools", "", <<>>, <<>>, <<>>, 0, 0, TRUE))
    /\ tools_by_name' = {REQUIRED[i] : i \in 1..Len(REQUIRED)}
    /\ pc' = "list_components"
    /\ UNCHANGED <<other_vars, input, indexed_actions, binding_lookup, comp, events, success_count,
                   total, cur, chg, grouped, grp, gateway>>

\* lines 117-123, 203-206: list_components raises
ListComponentsFail ==
    /\ pc = "list_components"
    /\ Invoke(Call("list_components", "", <<>>, <<>>, <<>>, 0, 0, FALSE))
    /\ Emit(ErrorEvent("failed_to_resolve_bindings", <<>>))
    /\ pc' = "end"
    /\ UNCHANGED <<other_vars, input, indexed_actions, binding_lookup, comp, success_count,
                   total, cur, chg, grouped, grp, gateway, tools_by_name>>

\* lines 117-125
ListComponentsOk ==
    /\ pc = "list_components"
    /\ Invoke(Call("list_components", "", <<>>, <<>>, <<>>, 0, 0, TRUE))
    /\ binding_lookup' = <<>>
    /\ comp' = 1
    /\ pc' = IF GatewayComponents = <<>> THEN "started" ELSE "list_bindings"
    /\ UNCHANGED <<other_vars, input, indexed_actions, events, success_count,
                   total, cur, chg, grouped, grp, gateway, tools_by_name>>

\* lines 126-136, 203-206: list_release_bindings raises
ListBindingsFail ==
    /\ pc = "list_bindings"
    /\ Invoke(Call("list_release_bindings", GatewayComponents[comp], <<>>, <<>>, <<>>, 0, 0, FALSE))
    /\ Emit(ErrorEvent("failed_to_resolve_bindings", <<>>))
    /\ pc' = "end"
    /\ UNCHANGED <<other_vars, input, indexed_actions, binding_lookup, comp, success_count,
                   total, cur, chg, grouped, grp, gateway, tools_by_name>>

\* lines 126-144: the bindings of one component enter the lookup
ListBindingsOk ==
    /\ pc = "list_bindings"
    /\ Invoke(Call("list_release_bindings", GatewayComponents[comp], <<>>, <<>>, <<>>, 0, 0, TRUE))
    /\ binding_lookup' = LookupPutAll(binding_lookup, GatewayComponents[comp],
                                       GatewayBindings(gateway, GatewayComponents[comp]))
    /\ comp' = comp + 1
    /\ pc' = IF comp + 1 > Len(GatewayComponents) THEN "started" ELSE "list_bindings"
    /\ UNCHANGED <<other_vars, input, indexed_actions, events, success_count,
                   total, cur, chg, grouped, grp, gateway, tools_by_name>>

\* line 208
EmitStarted ==
    /\ pc = "started"
    /\ Emit(PatchStarted)
    /\ pc' = "counters"
    /\ UNCHANGED <<other_vars, input, indexed_actions, binding_lookup, comp, calls, success_count,
                   total, cur, chg, grouped, grp, gateway, tools_by_name>>

\* lines 210-211
InitCounters ==
    /\ pc = "counters"
    /\ success_count' = 0
    /\ total' = Len(indexed_actions)
    /\ cur' = 1
    /\ pc' = "loop"
    /\ UNCHANGED <<other_vars, input, indexed_actions, binding_lookup, comp, events, calls,
                   chg, grouped, grp, gateway, tools_by_name>>

\* lines 213-228
EmitProgress ==
    /\ pc = "loop"
    /\ cur <= Len(indexed_actions)
    /\ Emit(PatchProgress(CurIdx, CurAction.description))
    /\ grouped' = <<>>
    /\ chg' = 1
    /\ pc' = "group"
    /\ UNCHANGED <<other_vars, input, indexed_actions, binding_lookup, comp, calls, success_count,
                   total, cur, grp, gateway, tools_by_name>>

\* Mutation: the failure of an action is reported as an error event that
\* ends the stream.
ActionFailedEndsStream(err) ==
    /\ Emit(ErrorEvent(err, <<>>))
    /\ cur' = cur
    /\ pc' = "end"

\* lines 301-311: the handler of the per-action try; the for loop then
\* takes the next action.
ActionFailed(err) ==
    /\ Emit(PatchResult(CurIdx, CurAction.description, "failed", err, <<>>))
    /\ cur' = cur + 1
    /\ pc' = "loop"

\* line 231: parse_resource_ref raises
GroupBadRef ==
    /\ pc = "group"
    /\ chg <= Len(CurAction.changes)
    /\ LET ref == parse_resource_ref(CurAction.changes[chg].resource)
       IN  /\ ~ref.ok
           /\ ActionFailed(ref.err)
    /\ UNCHANGED <<other_vars, input, indexed_actions, binding_lookup, comp, calls, success_count,
                   total, chg, grouped, grp, gateway, tools_by_name>>

\* Mutation: after the skip the rest of the action is abandoned.
GroupSkipAbandons ==
    /\ pc = "group"
    /\ chg <= Len(CurAction.changes)
    /\ LET ref == parse_resource_ref(CurAction.changes[chg].resource)
       IN  /\ ref.ok
           /\ ref.kind # sReleaseBinding
           /\ Emit(PatchResult(CurIdx, CurAction.description, "skipped",
                               "unsupported_resource_kind", ref.kind))
    /\ cur' = cur + 1
    /\ pc' = "loop"
    /\ UNCHANGED <<other_vars, input, indexed_actions, binding_lookup, comp, calls, success_count,
                   total, chg, grouped, grp, gateway, tools_by_name>>

\* lines 232-242: a change of another kind is skipped
GroupSkip ==
    /\ pc = "group"
    /\ chg <= Len(CurAction.changes)
    /\ LET ref == parse_resource_ref(CurAction.changes[chg].resource)
       IN  /\ ref.ok
           /\ ref.kind # sReleaseBinding
           /\ Emit(PatchResult(CurIdx, CurAction.description, "skipped",
                               "unsupported_resource_kind", ref.kind))
    /\ chg' = chg + 1
    /\ UNCHANGED <<other_vars, input, pc, indexed_actions, binding_lookup, comp, calls, success_count,
                   total, cur, grouped, grp, gateway, tools_by_name>>

\* line 244: parse_field_path raises
GroupBadPath ==
    /\ pc = "group"
    /\ chg <= Len(CurAction.changes)
    /\ LET ref == parse_resource_ref(CurAction.changes[chg].resource)
           fp == parse_field_path(CurAction.changes[chg].field_path)
       IN  /\ ref.ok
           /\ ref.kind = sReleaseBinding
           /\ ~fp.ok
           /\ ActionFailed(fp.err)
    /\ UNCHANGED <<other_vars, input, indexed_actions, binding_lookup, comp, calls, success_count,
                   total, chg, grouped, grp, gateway, tools_by_name>>

\* lines 244-248: the change joins its (kind, name) group
GroupAdd ==
    /\ pc = "group"
    /\ chg <= Len(CurAction.changes)
    /\ LET ch == CurAction.changes[chg]
           ref == parse_resource_ref(ch.resource)
           fp == parse_field_path(ch.field_path)
       IN  /\ ref.ok
           /\ ref.kind = sReleaseBinding
           /\ fp.ok
           /\ grouped' = GroupAppend(grouped, ref.kind, ref.name,
                                     [override_key |-> fp.override_key,
                                      param_name |-> ParamOf(fp.override_key),
                                      path_segments |-> fp.path_segments,
                                      value |-> ch.value])
    /\ chg' = chg + 1
    /\ UNCHANGED <<other_vars, input, pc, indexed_actions, binding_lookup, comp, events, calls,
                   success_count, total, cur, grp, gateway, tools_by_name>>

\* lines 250-251: every change was skipped
GroupedEmpty ==
    /\ pc = "group"
    /\ chg > Len(CurAction.changes)
    /\ grouped = <<>>
    /\ cur' = cur + 1
    /\ pc' = "loop"
    /\ UNCHANGED <<other_vars, input, indexed_actions, binding_lookup, comp, events, calls,
                   success_count, total, chg, grouped, grp, gateway, tools_by_name>>

\* line 253: the loop over the groups starts
GroupedReady ==
    /\ pc = "group"
    /\ chg > Len(CurAction.changes)
    /\ grouped # <<>>
    /\ grp' = 1
    /\ pc' = "apply"
    /\ UNCHANGED <<other_vars, input, indexed_actions, binding_lookup, comp, events, calls,
                   success_count, total, cur, chg, grouped, gateway, tools_by_name>>

\* Mutation: a missing binding abandons the remaining groups of the action.
ApplyMissingAbandons ==
    /\ pc = "apply"
    /\ grp <= Len(grouped)
    /\ ~LookupHas(binding_lookup, grouped[grp].name)
    /\ Emit(PatchResult(CurIdx, CurAction.description, "failed",
                        "no_component_for_binding", grouped[grp].name))
    /\ cur' = cur + 1
    /\ pc' = "loop"
    /\ UNCHANGED <<other_vars, input, indexed_actions, binding_lookup, comp, calls, success_count,
                   total, chg, grouped, grp, gateway, tools_by_name>>

\* lines 254-265: no BindingInfo for the group's name
ApplyMissing ==
    /\ pc = "apply"
    /\ grp <= Len(grouped)
    /\ ~LookupHas(binding_lookup, grouped[grp].name)
    /\ Emit(PatchResult(CurIdx, CurAction.description, "failed",
                        "no_component_for_binding", grouped[grp].name))
    /\ grp' = grp + 1
    /\ UNCHANGED <<other_vars, input, pc, indexed_actions, binding_lookup, comp, calls, success_count,
                   total, cur, chg, grouped, gateway, tools_by_name>>

\* lines 270-275: apply_change raises
ApplyRaises ==
    /\ pc = "apply"
    /\ grp <= Len(grouped)
    /\ LookupHas(binding_lookup, grouped[grp].name)
    /\ LET built == BuildOverrides(LookupGet(binding_lookup, grouped[grp].name),
                                   grouped[grp].changes, <<>>)
       IN  /\ ~built.ok
           /\ ActionFailed(built.err)
           /\ binding_lookup' = LookupAfterGroup(binding_lookup, grouped[grp].name, built.overrides)
    /\ UNCHANGED <<other_vars, input, indexed_actions, comp, calls, success_count,
                   total, chg, grouped, grp, gateway, tools_by_name>>

\* Mutation: every override parameter of the binding is sent, touched or not.
PatchCallEveryParam(ok) ==
    LET name == grouped[grp].name
        info == LookupGet(binding_lookup, name)
        built == BuildOverrides(info, grouped[grp].changes, <<>>)
        rest == SelectSeq(OVERRIDE_PARAM_MAP,
                          LAMBDA m : ParamIndex(built.overrides, m.param) = 0)
    IN  Call("patch_release_binding", info.component_name, name, info.release_name,
             built.overrides
                 \o [i \in 1..Len(rest) |-> <<rest[i].param, MapGet(info.raw, rest[i].key, EmptyMap)>>],
             cur, grp, ok)

\* lines 277-288: the arguments of patch_release_binding
PatchCall(ok) ==
    LET name == grouped[grp].name
        info == LookupGet(binding_lookup, name)
        built == BuildOverrides(info, grouped[grp].changes, <<>>)
    IN  Call("patch_release_binding", info.component_name, name, info.release_name,
             built.overrides, cur, grp, ok)

CanPatch ==
    /\ pc = "apply"
    /\ grp <= Len(grouped)
    /\ LookupHas(binding_lookup, grouped[grp].name)
    /\ BuildOverrides(LookupGet(binding_lookup, grouped[grp].name),
                      grouped[grp].changes, <<>>).ok

\* Mutation: the exception of patch_release_binding is not caught and ends
\* the generator.
PatchFailsUncaught ==
    /\ CanPatch
    /\ Invoke(PatchCall(FALSE))
    /\ pc' = "end"
    /\ UNCHANGED <<other_vars, input, indexed_actions, binding_lookup, comp, events, success_count,
                   total, cur, chg, grouped, grp, gateway, tools_by_name>>

\* Mutation: a patch call that raised is counted as a success.
PatchFailsCounted ==
    /\ CanPatch
    /\ Invoke(PatchCall(FALSE))
    /\ gateway' = gateway
    /\ ActionFailed("gateway_error")
    /\ success_count' = success_count + 1
    /\ UNCHANGED <<other_vars, input, indexed_actions, binding_lookup, comp,
                   total, chg, grouped, grp, tools_by_name>>

\* lines 288, 301-311: patch_release_binding raises; the gateway may or may
\* not have applied the patch before the failure.
PatchFails ==
    /\ CanPatch
    /\ Invoke(PatchCall(FALSE))
    /\ \E applied \in BOOLEAN :
          gateway' = IF applied
                     THEN GatewayPatch(gateway, grouped[grp].name, PatchCall(FALSE).overrides)
                     ELSE gateway
    /\ ActionFailed("gateway_error")
    /\ binding_lookup' = LookupAfterGroup(binding_lookup, grouped[grp].name, PatchCall(FALSE).overrides)
    /\ UNCHANGED <<other_vars, input, indexed_actions, comp, success_count,
                   total, chg, grouped, grp, tools_by_name>>

\* lines 288-298: patch_release_binding returns and success is yielded
PatchSucceeds ==
    /\ CanPatch
    /\ Invoke(PatchCall(TRUE))
    /\ gateway' = GatewayPatch(gateway, grouped[grp].name, PatchCall(TRUE).overrides)
    /\ Emit(PatchResult(CurIdx, CurAction.description, "success", "applied_to",
                        Ref(grouped[grp].kind, grouped[grp].name)))
    /\ pc' = "count"
    /\ binding_lookup' = LookupAfterGroup(binding_lookup, grouped[grp].name, PatchCall(TRUE).overrides)
    /\ UNCHANGED <<other_vars, input, indexed_actions, comp, success_count,
                   total, cur, chg, grouped, grp, tools_by_name>>

\* line 299, run when the generator is resumed after the success event
Count ==
    /\ pc = "count"
    /\ success_count' = success_count + 1
    /\ grp' = grp + 1
    /\ pc' = "apply"
    /\ UNCHANGED <<other_vars, input, indexed_actions, binding_lookup, comp, events, calls,
                   total, cur, chg, grouped, gateway, tools_by_name>>

\* line 253: the groups are exhausted, the for loop takes the next action
GroupsDone ==
    /\ pc = "apply"
    /\ grp > Len(grouped)
    /\ cur' = cur + 1
    /\ pc' = "loop"
    /\ UNCHANGED <<other_vars, input, indexed_actions, binding_lookup, comp, events, calls,
                   success_count, total, chg, grouped, grp, gateway, tools_by_name>>

\* lines 313-318
EmitDone ==
    /\ pc = "loop"
    /\ cur > Len(indexed_actions)
    /\ Emit(PatchDone(success_count, total))
    /\ pc' = "end"
    /\ UNCHANGED <<other_vars, input, indexed_actions, binding_lookup, comp, calls, success_count,
                   total, cur, chg, grouped, grp, gateway, tools_by_name>>

Next ==
    \/ ParseFail
    \/ FilterEmpty
    \/ NoRevised
    \/ FilterSome
    \/ ConnectFail
    \/ ToolsMissing
    \/ ToolsAvailable
    \/ ListComponentsFail
    \/ ListComponentsOk
    \/ ListBindingsFail
    \/ ListBindingsOk
    \/ EmitStarted
    \/ InitCounters
    \/ EmitProgress
    \/ GroupBadRef
    \/ GroupSkip
    \/ GroupBadPath
    \/ GroupAdd
    \/ GroupedEmpty
    \/ GroupedReady
    \/ ApplyMissing
    \/ ApplyRaises
    \/ PatchFails
    \/ PatchSucceeds
    \/ Count
    \/ GroupsDone
    \/ EmitDone

Spec == Init /\ [][Next]_vars

(***************************************************************************)
(* Vocabulary of the properties.                                            *)
(***************************************************************************)
EventsOf(type) == {i \in 1..Len(events) : events[i].type = type}

PatchCalls == {i \in 1..Len(calls) : calls[i].tool = "patch_release_binding"}

\* The positions of the input whose action is REVISED with a change.
DispatchPositions ==
    {p \in 1..Len(input) : input[p].status = "revised" /\ Len(input[p].changes) > 0}

\* _build_binding_lookup returned: every component's bindings were listed.
SetupSucceeded == comp > Len(GatewayComponents)

ParamsOf(call) == {call.overrides[i][1] : i \in 1..Len(call.overrides)}

(***************************************************************************)
(* C1.  At patch_done with summary "Applied X/Y fixes", X <= Y, where Y is *)
(* the number of REVISED actions with changes and X the success counter,   *)
(* also for an action whose changes reach several bindings.                 *)
(* The code counts one success per patched binding, not per action.         *)
(***************************************************************************)
C1_SuccessCountAtMostTotal ==
    \A i \in EventsOf("patch_done") :
        events[i].text.k = "applied" =>
            /\ events[i].text.y = Cardinality(DispatchPositions)
            /\ events[i].text.x <= events[i].text.y

(***************************************************************************)
(* C2.  Within one run a parameter of a binding is seeded once, receives   *)
(* every change queued for it by every action of the run, and is sent to   *)
(* the gateway at most once: no two patch calls of the run carry the same  *)
(* override parameter of the same binding.                                  *)
(* The code seeds and patches once per action, from the lookup built       *)
(* before the first patch.  Only calls that returned are counted.           *)
(***************************************************************************)
C2_ParameterPatchedOncePerRun ==
    \A i, j \in PatchCalls :
        (i < j /\ calls[i].ok /\ calls[j].ok
               /\ calls[i].binding_name = calls[j].binding_name)
            => ParamsOf(calls[i]) \cap ParamsOf(calls[j]) = {}

(***************************************************************************)
(* C3.  A setup failure (unparseable input, gateway client or tool listing *)
(* failing, a required tool missing, binding enumeration raising) leaves   *)
(* exactly one event, an error, and no patch_release_binding call; for     *)
(* missing tools the message names each of them.                            *)
(***************************************************************************)
ParseFailed == pc # "start" /\ \E p \in 1..Len(input) : input[p].status \notin {"unchanged", "revised"}
ConnectFailed == \E i \in 1..Len(calls) : calls[i].tool = "get_tools" /\ ~calls[i].ok
RequiredMissing ==
    /\ \E i \in 1..Len(calls) : calls[i].tool = "get_tools" /\ calls[i].ok
    /\ \E n \in 1..Len(REQUIRED) : REQUIRED[n] \notin tools_by_name
EnumerationFailed ==
    \E i \in 1..Len(calls) :
        calls[i].tool \in {"list_components", "list_release_bindings"} /\ ~calls[i].ok
SetupFailed == ParseFailed \/ ConnectFailed \/ RequiredMissing \/ EnumerationFailed

C3_SetupFailureIsOneError ==
    SetupFailed =>
        /\ pc = "end"
        /\ Len(events) = 1
        /\ events[1].type = "error"
        /\ PatchCalls = {}
        /\ RequiredMissing =>
              /\ events[1].text.k = "tools_not_available"
              /\ \A n \in 1..Len(REQUIRED) :
                    REQUIRED[n] \notin tools_by_name
                        => \E m \in 1..Len(events[1].text.s) : events[1].text.s[m] = REQUIRED[n]

\* Enumeration fails at the second component, after the first was listed.
C3_Witness ==
    /\ pc = "end"
    /\ EnumerationFailed
    /\ Len(binding_lookup) = 1
    /\ Len(calls) = 4
    /\ events = <<ErrorEvent("failed_to_resolve_bindings", <<>>)>>

\* Two required tools are missing and both are named.
C3_WitnessMissingTools ==
    /\ pc = "end"
    /\ tools_by_name = {"list_components"}
    /\ events = <<ErrorEvent("tools_not_available",
                             <<"list_release_bindings", "patch_release_binding">>)>>

(***************************************************************************)
(* Reading the event stream: the dispatched action an event belongs to is  *)
(* the one announced by the latest patch_progress before it.                *)
(***************************************************************************)
ActionOf(i) == Cardinality({j \in 1..i : events[j].type = "patch_progress"})

ResultsOf(n) == {i \in EventsOf("patch_result") : ActionOf(i) = n}

\* The action's stretch of the stream is closed: the loop has moved on.
Closed(n) == n < cur \/ pc = "end"

MalformedKinds ==
    {"invalid_resource_reference", "invalid_field_path",
     "unsupported_override_category", "array_selector_terminal"}

RaisedKinds == MalformedKinds \cup {"type_error", "gateway_error"}

\* What the changes of an action ask for, read off the input: the kinds to
\* skip, the groups to patch, and the error of the first change that does
\* not parse (changes after it are not looked at).
RECURSIVE Scan(_, _)
Scan(changes, acc) ==
    IF changes = <<>> THEN acc
    ELSE LET ch == Head(changes)
             ref == parse_resource_ref(ch.resource)
             fp == parse_field_path(ch.field_path)
         IN  IF ~ref.ok THEN [acc EXCEPT !.err = ref.err]
             ELSE IF ref.kind # sReleaseBinding
             THEN Scan(Tail(changes), [acc EXCEPT !.skipped = Append(@, ref.kind)])
             ELSE IF ~fp.ok THEN [acc EXCEPT !.err = fp.err]
             ELSE Scan(Tail(changes),
                       [acc EXCEPT !.grouped =
                           GroupAppend(@, ref.kind, ref.name,
                                       [override_key |-> fp.override_key,
                                        param_name |-> ParamOf(fp.override_key),
                                        path_segments |-> fp.path_segments,
                                        value |-> ch.value])])

Asked(n) == Scan(indexed_actions[n].action.changes,
                 [err |-> "", skipped |-> <<>>, grouped |-> <<>>])

C5_StartedThenDone ==
    SetupSucceeded =>
        /\ EventsOf("error") = {}
        /\ pc # "started" =>
              /\ events # <<>>
              /\ EventsOf("patch_started") = {1}
        /\ pc = "started" => events = <<>>
        /\ pc = "end" =>
              /\ EventsOf("patch_done") = {Len(events)}
              /\ events[Len(events)].text.k = "applied"
              /\ events[Len(events)] = PatchDone(success_count, total)
              /\ \A i \in EventsOf("patch_progress") \cup EventsOf("patch_result") :
                    1 < i /\ i < Len(events)
        /\ pc # "end" => EventsOf("patch_done") = {}

\* A run with a gateway failure, a missing binding and a success.
C5_Witness ==
    /\ pc = "end"
    /\ SetupSucceeded
    /\ events[Len(events)].type = "patch_done"
    /\ \E i, j, k \in EventsOf("patch_result") :
          /\ events[i].text.k = "gateway_error"
          /\ events[j].text.k = "no_component_for_binding"
          /\ events[k].status = "success"

(***************************************************************************)
(* C6.  For each dispatched action, in input order, one patch_progress     *)
(* with status applying carries the caller's index of the action (its      *)
(* position in the unfiltered input when the caller gave none) and is      *)
(* followed by a patch_result before the next patch_progress or            *)
(* patch_done; every patch_result carries the index and description of     *)
(* the latest patch_progress.                                               *)
(***************************************************************************)
\* The input position of the n-th action that is REVISED with a change.
NthDispatched(n) ==
    CHOOSE p \in DispatchPositions :
        Cardinality({q \in DispatchPositions : q <= p}) = n

ProgressOf(n) == CHOOSE i \in EventsOf("patch_progress") : ActionOf(i) = n

C6_ProgressThenResultsPerAction ==
    /\ Cardinality(EventsOf("patch_progress")) <= Cardinality(DispatchPositions)
    /\ (pc = "end" /\ SetupSucceeded) =>
          Cardinality(EventsOf("patch_progress")) = Cardinality(DispatchPositions)
    /\ \A i \in EventsOf("patch_progress") :
          LET p == NthDispatched(ActionOf(i))
          IN  /\ events[i].status = "applying"
              /\ events[i].index = IF input[p].has_index THEN input[p].index ELSE p - 1
              /\ events[i].action = input[p].description
              /\ i < Len(events) => events[i+1].type = "patch_result"
              /\ i = Len(events) => pc \in {"group", "apply"}
    /\ \A i \in EventsOf("patch_result") :
          /\ ActionOf(i) >= 1
          /\ events[i].index = events[ProgressOf(ActionOf(i))].index
          /\ events[i].action = events[ProgressOf(ActionOf(i))].action

\* The first action carries the caller's index 7, the second none and so
\* its position 1; each has its progress and its result, in input order.
C6_Witness ==
    /\ pc = "end"
    /\ Len(input) = 2
    /\ input[1].has_index /\ input[1].index = 7
    /\ ~input[2].has_index
    /\ Len(events) = 6
    /\ events[2].type = "patch_progress" /\ events[2].index = 7
    /\ events[3].type = "patch_result" /\ events[3].index = 7
    /\ events[4].type = "patch_progress" /\ events[4].index = 1
    /\ events[5].type = "patch_result" /\ events[5].index = 1

(***************************************************************************)
(* C7.  An action that is UNCHANGED, or REVISED without changes, is never  *)
(* dispatched: no patch_progress or patch_result is emitted for it, no     *)
(* gateway call is made for it, and Y of "Applied X/Y fixes" is the number *)
(* of input actions that are REVISED with at least one change.              *)
(***************************************************************************)
InputIndex(p) == IF input[p].has_index THEN input[p].index ELSE p - 1

C7_OnlyRevisedWithChangesDispatched ==
    /\ \A n \in 1..Len(indexed_actions) :
          /\ indexed_actions[n].action.status = "revised"
          /\ Len(indexed_actions[n].action.changes) > 0
    /\ pc \notin {"start", "no_revised", "end"} =>
          Len(indexed_actions) = Cardinality(DispatchPositions)
    /\ pc \notin {"start", "started", "counters"} /\ SetupSucceeded =>
          total = Cardinality(DispatchPositions)
    /\ \A i \in EventsOf("patch_done") :
          events[i].text.k = "applied" => events[i].text.y = Cardinality(DispatchPositions)
    /\ \A p \in (1..Len(input)) \ DispatchPositions :
          (\A q \in DispatchPositions : InputIndex(q) # InputIndex(p)) =>
              \A i \in EventsOf("patch_progress") \cup EventsOf("patch_result") :
                  events[i].index # InputIndex(p)
    /\ \A i \in EventsOf("patch_progress") \cup EventsOf("patch_result") :
          /\ ActionOf(i) \in 1..Cardinality(DispatchPositions)
          /\ events[i].action = input[NthDispatched(ActionOf(i))].description
    /\ \A c \in PatchCalls :
          /\ calls[c].k \in 1..Cardinality(DispatchPositions)
          /\ \E m \in 1..Len(input[NthDispatched(calls[c].k)].changes) :
                parse_resource_ref(input[NthDispatched(calls[c].k)].changes[m].resource).name
                    = calls[c].binding_name

\* An UNCHANGED action that has changes and index 0 precedes a dispatched
\* one: the run ends with Y = 1 and no event carrying index 0.
C7_Witness ==
    /\ pc = "end"
    /\ Len(input) = 2
    /\ input[1].status = "unchanged"
    /\ input[1].changes # <<>>
    /\ DispatchPositions = {2}
    /\ events[Len(events)] = PatchDone(1, 1)
    /\ \A i \in 1..Len(events) : events[i].type = "patch_result" => events[i].index # 0

(***************************************************************************)
(* C8.  When no input action is REVISED with changes, the run emits the    *)
(* completion event "No revised actions to apply" and ends: no gateway     *)
(* operation is invoked and no patch_progress, patch_result or error is    *)
(* emitted.  The gateway is not reached, so its state cannot matter.        *)
(***************************************************************************)
C8_NothingToApply ==
    (pc # "start" /\ ~ParseFailed /\ DispatchPositions = {}) =>
        /\ calls = <<>>
        /\ tools_by_name = {}
        /\ binding_lookup = <<>>
        /\ pc \in {"no_revised", "end"}
        /\ pc = "no_revised" => events = <<PatchStarted>>
        /\ pc = "end" => events = <<PatchStarted, PatchDoneNoRevised>>

\* Two actions, one UNCHANGED and one REVISED without changes.
C8_Witness ==
    /\ pc = "end"
    /\ Len(input) = 2
    /\ input[1].status = "unchanged"
    /\ input[2].status = "revised"
    /\ events = <<PatchStarted, PatchDoneNoRevised>>
    /\ calls = <<>>

(***************************************************************************)
(* C9.  A (kind, name) group whose binding is absent from the lookup gets  *)
(* exactly one patch_result failed naming the binding and no patch call;   *)
(* the next group of the action and the following actions are still       *)
(* processed.  A run of one such action is started, progress(applying),    *)
(* result(failed), done("Applied 0/1 fixes").                               *)
(***************************************************************************)
\* The group a result that is not a skip reports on: groups are taken in
\* order and each yields one result.
GroupOf(i) ==
    Cardinality({j \in ResultsOf(ActionOf(i)) : j <= i /\ events[j].status # "skipped"})

NoRaise(n) == \A i \in ResultsOf(n) : events[i].text.k \notin RaisedKinds

C9_MissingBindingFailsItsGroup ==
    /\ \A i \in EventsOf("patch_result") :
          events[i].text.k = "no_component_for_binding" =>
              LET n == ActionOf(i)
                  g == GroupOf(i)
                  asked == Asked(n)
              IN  /\ events[i].status = "failed"
                  /\ asked.err = ""
                  /\ g \in 1..Len(asked.grouped)
                  /\ events[i].text.s = asked.grouped[g].name
                  /\ ~LookupHas(binding_lookup, events[i].text.s)
                  /\ \A c \in PatchCalls :
                        ~(calls[c].k = n /\ calls[c].binding_name = events[i].text.s)
                  /\ \A j \in ResultsOf(n) : events[j].text = events[i].text => j = i
                  /\ (g < Len(asked.grouped) /\ (Closed(n) \/ i < Len(events))) =>
                        /\ i < Len(events)
                        /\ events[i+1].type = "patch_result"
                        /\ GroupOf(i+1) = g + 1
                  /\ (g = Len(asked.grouped) /\ i < Len(events)) =>
                        events[i+1].type \in {"patch_progress", "patch_done"}
    /\ \A n \in 1..Len(indexed_actions) :
          (SetupSucceeded /\ n <= cur /\ Closed(n) /\ NoRaise(n)) =>
              LET asked == Asked(n)
              IN  asked.err = "" =>
                      \A g \in 1..Len(asked.grouped) :
                          ~LookupHas(binding_lookup, asked.grouped[g].name) =>
                              \E i \in ResultsOf(n) :
                                  /\ events[i].text.k = "no_component_for_binding"
                                  /\ events[i].text.s = asked.grouped[g].name
    /\ (/\ pc = "end"
        /\ SetupSucceeded
        /\ Len(indexed_actions) = 1
        /\ Len(indexed_actions[1].action.changes) = 1
        /\ Asked(1).err = ""
        /\ Len(Asked(1).grouped) = 1
        /\ ~LookupHas(binding_lookup, Asked(1).grouped[1].name)) =>
          events = << PatchStarted,
                      PatchProgress(InputIndex(NthDispatched(1)),
                                    input[NthDispatched(1)].description),
                      PatchResult(InputIndex(NthDispatched(1)),
                                  input[NthDispatched(1)].description, "failed",
                                  "no_component_for_binding", Asked(1).grouped[1].name),
                      PatchDone(0, 1) >>

\* The first group of an action names the absent b9, its second group b2
\* is patched, and the next action is processed too.
C9_Witness ==
    /\ pc = "end"
    /\ Len(indexed_actions) = 2
    /\ \E i \in ResultsOf(1) :
          /\ events[i].text = Text("no_component_for_binding", sB9, 0, 0)
          /\ events[i+1].type = "patch_result"
          /\ events[i+1].status = "success"
          /\ ActionOf(i+1) = 1
    /\ ResultsOf(2) # {}

(***************************************************************************)
(* C10.  Each change whose kind is not ReleaseBinding, met by the grouping *)
(* of its action, yields its own patch_result skipped naming the kind and  *)
(* stops nothing: the ReleaseBinding changes of the action are grouped,    *)
(* applied and sent, and no gateway call carries anything of the skipped   *)
(* change.                                                                  *)
(***************************************************************************)
SkippedOf(n) == {i \in ResultsOf(n) : events[i].status = "skipped"}

C10_UnsupportedKindIsSkipped ==
    /\ \A i \in EventsOf("patch_result") :
          events[i].status = "skipped" =>
              LET n == ActionOf(i)
                  m == Cardinality({j \in SkippedOf(n) : j <= i})
                  asked == Asked(n)
              IN  /\ events[i].text.k = "unsupported_resource_kind"
                  /\ m <= Len(asked.skipped)
                  /\ events[i].text.s = asked.skipped[m]
                  /\ events[i].text.s # sReleaseBinding
    /\ \A n \in 1..Len(indexed_actions) :
          (SetupSucceeded /\ n <= cur /\ Closed(n)) =>
              LET asked == Asked(n)
              IN  /\ Cardinality(SkippedOf(n)) = Len(asked.skipped)
                  /\ (asked.err = "" /\ NoRaise(n)) =>
                        \A g \in 1..Len(asked.grouped) :
                            LookupHas(binding_lookup, asked.grouped[g].name) =>
                                /\ \E c \in PatchCalls :
                                      calls[c].k = n /\ calls[c].g = g /\ calls[c].ok
                                /\ \E i \in ResultsOf(n) :
                                      /\ events[i].status = "success"
                                      /\ events[i].text.s =
                                            Ref(sReleaseBinding, asked.grouped[g].name)
    /\ \A c \in PatchCalls :
          LET n == calls[c].k
              g == calls[c].g
              asked == Asked(n)
          IN  /\ n \in 1..Len(indexed_actions)
              /\ asked.err = ""
              /\ g \in 1..Len(asked.grouped)
              /\ asked.grouped[g].kind = sReleaseBinding
              /\ calls[c].binding_name = asked.grouped[g].name
              /\ calls[c].overrides =
                    BuildOverrides(LookupGet(binding_lookup, calls[c].binding_name),
                                   asked.grouped[g].changes, <<>>).overrides

\* "Deployment d" and "StatefulSet s" are skipped, each with its own
\* result, and the change to b1 that stands between them is patched.
C10_Witness ==
    /\ pc = "end"
    /\ \E i \in EventsOf("patch_result") :
          /\ events[i] = PatchResult(3, "deployment and a", "skipped",
                                     "unsupported_resource_kind", sDeployment)
          /\ events[i+1] = PatchResult(3, "deployment and a", "skipped",
                                       "unsupported_resource_kind", sStatefulSet)
          /\ events[i+2].type = "patch_result"
          /\ events[i+2].status = "success"
          /\ events[i+2].text.s = Ref(sReleaseBinding, sB1)
          /\ \E c \in PatchCalls :
                /\ calls[c].k = ActionOf(i)
                /\ calls[c].binding_name = sB1
                /\ calls[c].ok

(***************************************************************************)
(* C11.  A patch_release_binding call that raises is reported by one       *)
(* patch_result failed carrying the cause, for the action that made the    *)
(* call; it is not counted as a success and is not retried: a run makes at *)
(* most one patch call per action and group.  The following actions are    *)
(* still processed and the stream ends with patch_done.                     *)
(***************************************************************************)
FailedCalls == {c \in PatchCalls : ~calls[c].ok}

ReturnedCalls == {c \in PatchCalls : calls[c].ok}

GatewayErrorsOf(n) == {i \in ResultsOf(n) : events[i].text.k = "gateway_error"}

C11_GatewayFailureFailsItsAction ==
    /\ \A c \in FailedCalls :
          LET n == calls[c].k
          IN  /\ n \in 1..Len(indexed_actions)
              /\ Cardinality(GatewayErrorsOf(n)) = 1
              /\ \A i \in GatewayErrorsOf(n) :
                    /\ events[i] = PatchResult(indexed_actions[n].idx,
                                               indexed_actions[n].action.description,
                                               "failed", "gateway_error", <<>>)
                    /\ \A j \in ResultsOf(n) : j <= i
                    /\ i < Len(events) =>
                          events[i+1].type \in {"patch_progress", "patch_done"}
              /\ Closed(n)
    /\ \A i \in EventsOf("patch_result") :
          events[i].text.k = "gateway_error" =>
              \E c \in FailedCalls : calls[c].k = ActionOf(i)
    /\ \A c, d \in PatchCalls :
          (calls[c].k = calls[d].k /\ calls[c].g = calls[d].g) => c = d
    /\ success_count + (IF pc = "count" THEN 1 ELSE 0) = Cardinality(ReturnedCalls)
    /\ \A i \in EventsOf("patch_done") :
          events[i].text.k = "applied" => events[i].text.x = Cardinality(ReturnedCalls)
    /\ (pc = "end" /\ SetupSucceeded) =>
          /\ events[Len(events)].type = "patch_done"
          /\ Cardinality(EventsOf("patch_progress")) = Len(indexed_actions)
          /\ \A n \in 1..Len(indexed_actions) : ResultsOf(n) # {}

\* The call of the first action raises; the second action is processed and
\* patched, and the summary counts one success of two actions.
C11_Witness ==
    /\ pc = "end"
    /\ Len(indexed_actions) = 2
    /\ \E c \in FailedCalls : calls[c].k = 1
    /\ \E d \in ReturnedCalls : calls[d].k = 2
    /\ \E i \in ResultsOf(2) : events[i].status = "success"
    /\ events[Len(events)] = PatchDone(1, 2)

(***************************************************************************)
(* C12.  A group whose binding resolves, in an action that raises nothing, *)
(* is sent by exactly one patch_release_binding call.  Every patch call    *)
(* carries the scope, the component, binding and release names of its      *)
(* binding, and one complete document for each override parameter its      *)
(* group touches and for no other parameter.  A success result is emitted  *)
(* only for a call that returned.  A run of one REVISED action with one    *)
(* well-formed change to a resolvable binding whose call returns is        *)
(* started, progress(applying), result(success), done("Applied 1/1").       *)
(***************************************************************************)
\* The gateway's record of a binding, by name.
GatewayEntry(name) ==
    GatewayInit[CHOOSE i \in 1..Len(GatewayInit) :
                    MapGet(GatewayInit[i].doc, sName, EmptyMap) = StrNode(name)]

\* The override parameters the changes of a group touch.
Touched(group) ==
    {OVERRIDE_PARAM_MAP[m].param : m \in
        {m \in 1..Len(OVERRIDE_PARAM_MAP) :
            \E x \in 1..Len(group.changes) :
                group.changes[x].override_key = OVERRIDE_PARAM_MAP[m].key}}

\* The category a parameter name stands for.
KeyOfParam(param) ==
    OVERRIDE_PARAM_MAP[CHOOSE m \in 1..Len(OVERRIDE_PARAM_MAP) :
                          OVERRIDE_PARAM_MAP[m].param = param].key

SuccessesOf(n) == {i \in ResultsOf(n) : events[i].status = "success"}

ChangesFor(group, param) ==
    SelectSeq(group.changes, LAMBDA ch : ch.override_key = KeyOfParam(param))

RECURSIVE FoldChanges(_, _)
FoldChanges(doc, changes) ==
    IF changes = <<>> THEN doc
    ELSE FoldChanges(apply_change(doc, Head(changes).path_segments, Head(changes).value).doc,
                     Tail(changes))

AllPlain(segments) == \A s \in 1..Len(segments) : ~segments[s].sel

\* The node a path of plain keys leads to.
RECURSIVE NodeAt(_, _)
NodeAt(doc, segments) ==
    IF segments = <<>> THEN doc
    ELSE NodeAt(MapGet(doc, Head(segments).f, EmptyMap), Tail(segments))

C19_ChangesFoldInOrder ==
    /\ apply_change(EmptyMap, <<KeySeg(<<"a">>), KeySeg(<<"b">>)>>, <<"v">>)
          = [ok |-> TRUE, err |-> "",
             doc |-> MapNode(<< << <<"a">>, MapNode(<< << <<"b">>, StrNode(<<"v">>) >> >>) >> >>)]
    /\ \A c \in PatchCalls :
          LET group == Asked(calls[c].k).grouped[calls[c].g]
              raw == LookupGet(binding_lookup, calls[c].binding_name).raw
          IN  \A x \in 1..Len(calls[c].overrides) :
                  LET param == calls[c].overrides[x][1]
                      sent == calls[c].overrides[x][2]
                      seed == MapGet(raw, KeyOfParam(param), EmptyMap)
                      queued == ChangesFor(group, param)
                  IN  /\ queued # <<>>
                      /\ sent = FoldChanges(seed, queued)
                      /\ \A q \in 1..Len(queued) :
                            (/\ AllPlain(queued[q].path_segments)
                             /\ \A r \in (q+1)..Len(queued) :
                                    queued[r].path_segments # queued[q].path_segments)
                                => NodeAt(sent, queued[q].path_segments)
                                      = StrNode(queued[q].value)
                      /\ \A y \in 1..Len(seed.c) :
                            (\A q \in 1..Len(queued) :
                                queued[q].path_segments[1].f # seed.c[y][1])
                                => MapGet(sent, seed.c[y][1], EmptyMap) = seed.c[y][2]

\* a is set to 1 and later to 5, c to 2 and, in between, t of the trait
\* overrides to 1: the workload document sent is {a: 5, z: 9, c: 2}.
C19_Witness ==
    \E c \in PatchCalls :
        /\ calls[c].binding_name = sB1
        /\ calls[c].overrides =
              << <<"workload_overrides",
                   MapNode(<< << <<"a">>, StrNode(<<"5">>) >>,
                              << <<"z">>, StrNode(<<"9">>) >>,
                              << <<"c">>, StrNode(<<"2">>) >> >>)>>,
                 <<"trait_overrides",
                   MapNode(<< << <<"t">>, StrNode(<<"1">>) >> >>)>> >>

(***************************************************************************)
(* The partial JSON decoder behind parse_partial_json: jiter.from_json     *)
(* with partial_mode = "trailing-strings".  A value cut by the end of the  *)
(* input is kept as far as it got: an open object or list is closed, an    *)
(* open string that is a value is kept, an open key, a key without its     *)
(* value and an open literal are left out.  Anything else JSON does not    *)
(* allow, an escape cut by the end of the input included, is a ValueError. *)
(* A scanned string or literal is [st, v, pos]: st is "ok" when complete   *)
(* and ending before pos, "eof" when cut by the end of the input, "drop"   *)
(* when cut with nothing to keep, "err" for a ValueError.                   *)
(***************************************************************************)
sMessage == <<"m","e","s","s","a","g","e">>
sActions == <<"a","c","t","i","o","n","s">>
sNull == <<"n","u","l","l">>
sTrue == <<"t","r","u","e">>
sFalse == <<"f","a","l","s","e">>

NullNode == [t |-> "null", v |-> <<>>, c |-> <<>>]
NumNode(digits) == [t |-> "num", v |-> digits, c |-> <<>>]
BoolNode(word) == [t |-> "bool", v |-> word, c |-> <<>>]

HexChars == {"0","1","2","3","4","5","6","7","8","9","a","b","c","d","e","f","A","B","C","D","E","F"}
DigitChars == {"0","1","2","3","4","5","6","7","8","9"}
JsonSpace == {" ", "\t", "\n", "\r"}
SimpleEscapes == {"\"", "\\", "/", "b", "f", "n", "r", "t"}

R(st, v, pos) == [st |-> st, v |-> v, pos |-> pos]
Err == R("err", NullNode, 0)

RECURSIVE SkipSpace(_, _)
SkipSpace(s, i) ==
    IF i <= Len(s) /\ s[i] \in JsonSpace THEN SkipSpace(s, i + 1) ELSE i

\* The character an escape stands for; a \uXXXX escape stays one element.
Unescape(ch) ==
    CASE ch = "n" -> "\n"
      [] ch = "t" -> "\t"
      [] ch = "r" -> "\r"
      [] ch = "f" -> "\f"
      [] ch = "b" -> "\\b"
      [] OTHER -> ch

\* The body of a string from i on, after its opening quote.
RECURSIVE ScanString(_, _, _)
ScanString(s, i, acc) ==
    IF i > Len(s) THEN R("eof", StrNode(acc), i)
    ELSE IF s[i] = "\"" THEN R("ok", StrNode(acc), i + 1)
    ELSE IF s[i] # "\\" THEN ScanString(s, i + 1, Append(acc, s[i]))
    ELSE IF i + 1 > Len(s) THEN Err
    ELSE IF s[i+1] \in SimpleEscapes
    THEN ScanString(s, i + 2, Append(acc, Unescape(s[i+1])))
    ELSE IF s[i+1] = "u" /\ i + 5 <= Len(s) /\ \A j \in (i+2)..(i+5) : s[j] \in HexChars
    THEN ScanString(s, i + 6, Append(acc, "\\u" \o s[i+2] \o s[i+3] \o s[i+4] \o s[i+5]))
    ELSE Err

\* null, true or false at i.
Literal(s, i, word, node) ==
    LET avail == Len(s) - i + 1
    IN  IF avail >= Len(word)
        THEN (IF SubSeq(s, i, i + Len(word) - 1) = word
              THEN R("ok", node, i + Len(word)) ELSE Err)
        ELSE (IF SubSeq(s, i, Len(s)) = SubSeq(word, 1, avail)
              THEN R("drop", NullNode, Len(s) + 1) ELSE Err)

RECURSIVE DigitsEnd(_, _)
DigitsEnd(s, i) ==
    IF i <= Len(s) /\ s[i] \in DigitChars THEN DigitsEnd(s, i + 1) ELSE i

\* The decoder as a machine over the input: where it stands (i), what it
\* expects (mode), the open containers (stack, the innermost last, an
\* object with the key whose value is awaited) and, at the end, the value.
Frame(node, key) == [node |-> node, key |-> key]

Machine(i, mode, stack, v) == [i |-> i, mode |-> mode, stack |-> stack, v |-> v]

Raised == Machine(0, "raised", <<>>, NullNode)

\* A value joins the container that awaits it.
Attach(frame, v) ==
    IF frame.node.t = "list"
    THEN [frame.node EXCEPT !.c = Append(@, <<<<>>, v>>)]
    ELSE MapSet(frame.node, frame.key, v)

\* The input ended: the open containers are closed from the innermost
\* outwards, each joining the one around it.  has tells whether v is a
\* value cut by the end that is kept.
RECURSIVE CloseAll(_, _, _)
CloseAll(stack, v, has) ==
    IF stack = <<>>
    THEN (IF has THEN Machine(0, "done", <<>>, v) ELSE Raised)
    ELSE LET top == stack[Len(stack)]
         IN  CloseAll(SubSeq(stack, 1, Len(stack) - 1),
                      IF has THEN Attach(top, v) ELSE top.node, TRUE)

\* A complete value ending before i.
Completed(stack, v, i) ==
    IF stack = <<>> THEN Machine(i, "end", <<>>, v)
    ELSE Machine(i, "after",
                 [stack EXCEPT ![Len(stack)].node = Attach(stack[Len(stack)], v)],
                 NullNode)

\* The innermost container is closed by its bracket before i.
Closed_(stack, i) ==
    Completed(SubSeq(stack, 1, Len(stack) - 1), stack[Len(stack)].node, i)

\* A string value was scanned.
ValueString(stack, r) ==
    CASE r.st = "err" -> Raised
      [] r.st = "eof" -> CloseAll(stack, r.v, TRUE)
      [] OTHER -> Completed(stack, r.v, r.pos)

\* A literal was read.
ValueLiteral(stack, r) ==
    CASE r.st = "err" -> Raised
      [] r.st = "drop" -> CloseAll(stack, NullNode, FALSE)
      [] OTHER -> Completed(stack, r.v, r.pos)

LiteralAt(s, j) ==
    CASE s[j] = "n" -> Literal(s, j, sNull, NullNode)
      [] s[j] = "t" -> Literal(s, j, sTrue, BoolNode(sTrue))
      [] OTHER -> Literal(s, j, sFalse, BoolNode(sFalse))

\* A number: its digits end before k.
ValueNumber(s, stack, j, k) == Completed(stack, NumNode(SubSeq(s, j, k - 1)), k)

\* After a key: its colon is expected at k.
KeyColon(s, stack, name, k) ==
    IF k > Len(s) THEN CloseAll(stack, NullNode, FALSE)
    ELSE IF s[k] # ":" THEN Raised
    ELSE Machine(k + 1, "value", [stack EXCEPT ![Len(stack)].key = name], NullNode)

\* A key was scanned.
KeyRead(s, stack, key) ==
    CASE key.st = "err" -> Raised
      [] key.st = "eof" -> CloseAll(stack, NullNode, FALSE)
      [] OTHER -> KeyColon(s, stack, key.v.v, SkipSpace(s, key.pos))

\* One step of the machine, j being the first position at or after m.i
\* that holds no white space.
StepAt(s, m, j) ==
    IF j > Len(s) /\ m.mode # "end" THEN CloseAll(m.stack, NullNode, FALSE)
    ELSE CASE m.mode = "value" ->
                CASE s[j] = "{" ->
                       Machine(j + 1, "first_key", Append(m.stack, Frame(EmptyMap, <<>>)), NullNode)
                  [] s[j] = "[" ->
                       Machine(j + 1, "first_elem", Append(m.stack, Frame(EmptyList, <<>>)), NullNode)
                  [] s[j] = "\"" -> ValueString(m.stack, ScanString(s, j + 1, <<>>))
                  [] s[j] \in {"n", "t", "f"} -> ValueLiteral(m.stack, LiteralAt(s, j))
                  [] s[j] \in DigitChars -> ValueNumber(s, m.stack, j, DigitsEnd(s, j))
                  [] OTHER -> Raised
           [] m.mode = "first_key" ->
                IF s[j] = "}" THEN Closed_(m.stack, j + 1)
                ELSE Machine(j, "key", m.stack, NullNode)
           [] m.mode = "first_elem" ->
                IF s[j] = "]" THEN Closed_(m.stack, j + 1)
                ELSE Machine(j, "value", m.stack, NullNode)
           [] m.mode = "key" ->
                IF s[j] # "\"" THEN Raised
                ELSE KeyRead(s, m.stack, ScanString(s, j + 1, <<>>))
           [] m.mode = "after" ->
                IF s[j] = ","
                THEN Machine(j + 1,
                             IF m.stack[Len(m.stack)].node.t = "list" THEN "value" ELSE "key",
                             m.stack, NullNode)
                ELSE IF s[j] = (IF m.stack[Len(m.stack)].node.t = "list" THEN "]" ELSE "}")
                THEN Closed_(m.stack, j + 1)
                ELSE Raised
           [] m.mode = "end" ->
                IF j > Len(s) THEN Machine(j, "done", <<>>, m.v) ELSE Raised
           [] OTHER -> m

Step(s, m) == StepAt(s, m, SkipSpace(s, m.i))

RECURSIVE Run(_, _)
Run(s, m) == IF m.mode \in {"done", "raised"} THEN m ELSE Run(s, Step(s, m))

\* jiter.from_json(json_str.encode(), partial_mode="trailing-strings"):
\* the value, or raised for a ValueError.
Outcome(m) == [raised |-> m.mode = "raised", v |-> m.v]

from_json(json_str) == Outcome(Run(json_str, Machine(1, "value", <<>>, NullNode)))

\* re.sub(r"\\u[0-9a-fA-F]{0,3}$", "", json_str)
StripUnicodeFragment(s) ==
    LET n == Len(s)
        fits(k) == /\ n >= k + 2
                   /\ s[n-k-1] = "\\"
                   /\ s[n-k] = "u"
                   /\ \A j \in (n-k+1)..n : s[j] \in HexChars
    IN  IF \E k \in 0..3 : fits(k)
        THEN SubSeq(s, 1, n - (CHOOSE k \in 0..3 : fits(k)) - 2)
        ELSE s

\* re.sub(r"\\$", "", json_str)
StripBackslash(s) ==
    IF s # <<>> /\ s[Len(s)] = "\\" THEN SubSeq(s, 1, Len(s) - 1) ELSE s

None == [some |-> FALSE, v |-> NullNode]
Some(v) == [some |-> TRUE, v |-> v]

\* result if isinstance(result, dict) else None
DictOrNone(result) == IF result.t = "map" THEN Some(result) ELSE None

\* lines 14-21: the handler of the first ValueError
Retry(second) == IF second.raised THEN None ELSE DictOrNone(second.v)

\* lines 11-13, the first attempt being made
Attempt(json_str, first) ==
    IF first.raised
    THEN Retry(from_json(StripBackslash(StripUnicodeFragment(json_str))))
    ELSE DictOrNone(first.v)

parse_partial_json(json_str) == Attempt(json_str, from_json(json_str))

(***************************************************************************)
(* ChatResponseParser.push.  len() raises TypeError for a value that is    *)
(* not a string, a list or a mapping, and a mapping cannot be sliced.       *)
(***************************************************************************)
HasLen(node) == node.t \in {"str", "list", "map"}

PyLen(node) == IF node.t = "str" THEN Len(node.v) ELSE Len(node.c)

\* new_message[k:]
SliceFrom(node, k) ==
    IF node.t = "str"
    THEN StrNode(SubSeq(node.v, k + 1, Len(node.v)))
    ELSE [node EXCEPT !.c = SubSeq(node.c, k + 1, Len(node.c))]

\* Mutation: an equally long message also yields a delta.
LongerOrEqual(new_message, message) == PyLen(new_message) >= PyLen(message)

\* len(new_message) > len(self._message)
Longer(new_message, message) == PyLen(new_message) > PyLen(message)

\* Mutation: the actions are taken from the first decode that has them.
NextActionsKeepFirst(parsed, actions) ==
    IF HasKey(parsed, sActions) /\ actions = EmptyList
    THEN MapGet(parsed, sActions, NullNode) ELSE actions

\* lines 37-38
NextActions(parsed, actions) ==
    IF HasKey(parsed, sActions) THEN MapGet(parsed, sActions, NullNode) ELSE actions

\* What one call leaves: the three fields, what it returned (ret) or that
\* it raised, and the local variable parsed.
Left(buffer, message, actions, ret, raised, parsed) ==
    [buffer |-> buffer, message |-> message, actions |-> actions,
     ret |-> ret, raised |-> raised, parsed |-> parsed]

\* lines 40-46
Delta(self, buffer, parsed, actions, new_message) ==
    IF ~HasLen(new_message)
    THEN Left(buffer, self.message, actions, None, TRUE, parsed)
    ELSE IF ~Longer(new_message, self.message)
    THEN Left(buffer, self.message, actions, None, FALSE, parsed)
    ELSE IF new_message.t = "map"
    THEN Left(buffer, self.message, actions, None, TRUE, parsed)
    ELSE Left(buffer, new_message, actions,
              Some(SliceFrom(new_message, PyLen(self.message))), FALSE, parsed)

\* lines 34-40
Decoded(self, buffer, parsed) ==
    IF ~parsed.some
    THEN Left(buffer, self.message, self.actions, None, FALSE, parsed)
    ELSE Delta(self, buffer, parsed, NextActions(parsed.v, self.actions),
               MapGet(parsed.v, sMessage, StrNode(<<>>)))

\* lines 31-32
push(self, chunk) ==
    Decoded(self, self.buffer \o chunk, parse_partial_json(self.buffer \o chunk))

(***************************************************************************)
(* The texts streamed to a parser, and the largest chunk.                   *)
(***************************************************************************)
MaxChunk == 3

Streams ==
    {
      \* a message, then two actions
      <<"{", "\"", "m", "e", "s", "s", "a", "g", "e", "\"", ":", "\"", "h", "i", "\"", ",", "\"", "a", "c", "t", "i", "o", "n", "s", "\"", ":", "[", "\"", "x", "\"", ",", "\"", "y", "\"", "]", "}">>,
      \* actions first; the message holds escapes
      <<"{", "\"", "a", "c", "t", "i", "o", "n", "s", "\"", ":", "[", "{", "\"", "d", "\"", ":", "\"", "a", "\"", "}", "]", ",", "\"", "m", "e", "s", "s", "a", "g", "e", "\"", ":", "\"", "a", "\\", "u", "0", "0", "e", "9", "\\", "n", "\\", "\\", "b", "\"", "}">>,
      \* a message that is null
      <<"{", "\"", "m", "e", "s", "s", "a", "g", "e", "\"", ":", "n", "u", "l", "l", "}">>,
      \* a message that is a number, after the actions
      <<"{", "\"", "a", "c", "t", "i", "o", "n", "s", "\"", ":", "[", "\"", "x", "\"", "]", ",", " ", "\"", "m", "e", "s", "s", "a", "g", "e", "\"", ":", "7", "}">>,
      \* a list, not an object
      <<"[", "\"", "m", "e", "s", "s", "a", "g", "e", "\"", ",", "\"", "h", "i", "\"", "]">>,
      \* the message key twice, the later value shorter
      <<"{", "\"", "m", "e", "s", "s", "a", "g", "e", "\"", ":", "\"", "h", "e", "l", "l", "o", "\"", ",", "\"", "m", "e", "s", "s", "a", "g", "e", "\"", ":", "\"", "h", "i", "\"", ",", "\"", "a", "c", "t", "i", "o", "n", "s", "\"", ":", "[", "]", "}">>,
      \* an object without message or actions
      <<"{", "\"", "n", "o", "t", "e", "\"", ":", "\"", "x", "\"", "}", " ">>,
      \* text after the object
      <<"{", "\"", "m", "e", "s", "s", "a", "g", "e", "\"", ":", "\"", "a", "\"", "}", "x">>,
      \* an escape JSON does not have
      <<"{", "\"", "m", "e", "s", "s", "a", "g", "e", "\"", ":", "\"", "a", "\\", "q", "\"", "}">>,
      \* a message that is a list
      <<"{", "\"", "m", "e", "s", "s", "a", "g", "e", "\"", ":", "[", "\"", "a", "\"", ",", "\"", "b", "\"", "]", ",", "\"", "a", "c", "t", "i", "o", "n", "s", "\"", ":", "n", "u", "l", "l", "}">>,
      \* the actions key twice
      <<"{", "\"", "a", "c", "t", "i", "o", "n", "s", "\"", ":", "[", "\"", "x", "\"", ",", "\"", "y", "\"", "]", ",", "\"", "m", "e", "s", "s", "a", "g", "e", "\"", ":", "\"", "m", "\"", ",", "\"", "a", "c", "t", "i", "o", "n", "s", "\"", ":", "[", "\"", "z", "\"", "]", "}">>,
      \* a message that is an object
      <<"{", "\"", "m", "e", "s", "s", "a", "g", "e", "\"", ":", "{", "\"", "a", "\"", ":", "\"", "b", "\"", "}", "}">>
    }

PatchIdle ==
    /\ input = <<>>
    /\ pc = "idle"
    /\ indexed_actions = <<>>
    /\ binding_lookup = <<>>
    /\ comp = 0
    /\ events = <<>>
    /\ calls = <<>>
    /\ success_count = 0
    /\ total = 0
    /\ cur = 0
    /\ chg = 0
    /\ grouped = <<>>
    /\ grp = 0
    /\ gateway = GatewayInit
    /\ tools_by_name = {}

ParserInit ==
    /\ stream \in Streams
    /\ fed = 0
    /\ _buffer = <<>>
    /\ _message = StrNode(<<>>)
    /\ _actions = EmptyList
    /\ last = NoPush
    /\ PatchIdle
    /\ EngineIdle
    /\ RestIdle

\* The parser after a call, and the record of the call.
Pushed(chunk, out) ==
    /\ _buffer' = out.buffer
    /\ _message' = out.message
    /\ _actions' = out.actions
    /\ last' = [pushed |-> TRUE, chunk |-> chunk, parsed |-> out.parsed,
                ret |-> out.ret, raised |-> out.raised,
                message |-> _message, actions |-> _actions]

PushChunk(chunk) ==
    Pushed(chunk, push([buffer |-> _buffer, message |-> _message, actions |-> _actions],
                       chunk))

\* One call of push with the next characters of the stream; the caller
\* (agent.py, stream_chat) pushes no more once a call raised.
Push ==
    /\ last.pushed => ~last.raised
    /\ \E n \in 1..MaxChunk :
          /\ fed + n <= Len(stream)
          /\ fed' = fed + n
          /\ PushChunk(SubSeq(stream, fed + 1, fed + n))
    /\ UNCHANGED <<patch_vars, engine_vars, rest_vars, stream>>

ParserNext == Push

ParserSpec == ParserInit /\ [][ParserNext]_vars

(***************************************************************************)
(* Vocabulary of the parser's properties.                                   *)
(***************************************************************************)
\* The message the decode of the latest push exposes ("" when it has none).
DecodedMessage == MapGet(last.parsed.v, sMessage, StrNode(<<>>))

Elem(node, k) == IF node.t = "str" THEN node.v[k] ELSE node.c[k]

\* The latest push appended its chunk to the buffer.
ChunkAppended ==
    /\ _buffer = SubSeq(stream, 1, fed)
    /\ last.chunk = SubSeq(stream, fed - Len(last.chunk) + 1, fed)
    /\ last.chunk # <<>>

(***************************************************************************)
(* C13.  push never raises, whatever the chunks and whatever the partial   *)
(* decode gives (a failure, a value that is not an object, an object       *)
(* without message, with a string message, with a message that is null or  *)
(* a number); after a failed decode it returned no delta, the remembered   *)
(* message and actions are as before and the chunk is in the buffer.        *)
(* The code takes len() of whatever the message is.                         *)
(***************************************************************************)
C13_PushNeverRaises ==
    last.pushed =>
        /\ ~last.raised
        /\ ChunkAppended
        /\ ~last.parsed.some =>
              /\ ~last.ret.some
              /\ _message = last.message
              /\ _actions = last.actions

(***************************************************************************)
(* C14.  After a push whose decode succeeded and that returned, a delta    *)
(* was returned exactly if the decoded message is longer than the message  *)
(* remembered before; the delta is then the decoded message from the       *)
(* remembered length on, it is not empty, and the decoded message is now   *)
(* the remembered one.  Otherwise, and after a failed decode, nothing was  *)
(* returned and the remembered message is as before.  The remembered       *)
(* message never gets shorter.                                              *)
(***************************************************************************)
C14_DeltaIsTheNewSuffix ==
    last.pushed =>
        /\ PyLen(_message) >= PyLen(last.message)
        /\ ~last.parsed.some => (~last.ret.some /\ _message = last.message)
        /\ (last.parsed.some /\ ~last.raised) =>
              /\ last.ret.some <=> PyLen(DecodedMessage) > PyLen(last.message)
              /\ last.ret.some =>
                    /\ _message = DecodedMessage
                    /\ PyLen(last.ret.v) > 0
                    /\ PyLen(last.ret.v) = PyLen(DecodedMessage) - PyLen(last.message)
                    /\ \A k \in 1..PyLen(last.ret.v) :
                          Elem(last.ret.v, k) = Elem(DecodedMessage, PyLen(last.message) + k)
              /\ ~last.ret.some => _message = last.message
        /\ last.raised => (~last.ret.some /\ _message = last.message)

\* "he" was remembered and the push that brings "llo" returns "llo".
C14_Witness ==
    /\ last.pushed
    /\ last.message = StrNode(<<"h","e">>)
    /\ last.ret = Some(StrNode(<<"l","l","o">>))
    /\ _message = StrNode(<<"h","e","l","l","o">>)

\* The later, shorter value of a repeated message key is decoded: nothing
\* is returned and "hello" stays.
C14_WitnessShorter ==
    /\ last.pushed
    /\ last.parsed.some
    /\ DecodedMessage = StrNode(<<"h","i">>)
    /\ ~last.ret.some
    /\ _message = StrNode(<<"h","e","l","l","o">>)

(***************************************************************************)
(* C15.  The remembered actions are the empty list until a decode exposes  *)
(* an actions field.  A push whose decode succeeds and exposes actions     *)
(* leaves exactly that value remembered, whether or not it returns a       *)
(* delta; a push whose decode fails or exposes no actions leaves the       *)
(* remembered actions as they were.  So the remembered actions are always  *)
(* those of the decode of some pushed prefix, or the empty list.            *)
(***************************************************************************)
ExposesActions(parsed) == parsed.some /\ HasKey(parsed.v, sActions)

C15_ActionsAreTheLatestDecoded ==
    /\ ~last.pushed => _actions = EmptyList
    /\ last.pushed =>
          /\ ExposesActions(last.parsed) =>
                _actions = MapGet(last.parsed.v, sActions, NullNode)
          /\ ~ExposesActions(last.parsed) => _actions = last.actions
    /\ \/ _actions = EmptyList
       \/ \E k \in 1..Len(_buffer) :
             /\ ExposesActions(parse_partial_json(SubSeq(_buffer, 1, k)))
             /\ _actions = MapGet(parse_partial_json(SubSeq(_buffer, 1, k)).v,
                                  sActions, NullNode)

\* A push that returns no delta replaces the one remembered action by two.
C15_Witness ==
    /\ last.pushed
    /\ ~last.ret.some
    /\ ~last.raised
    /\ last.actions = ListNode(<<StrNode(<<"x">>)>>)
    /\ _actions = ListNode(<<StrNode(<<"x">>), StrNode(<<"y">>)>>)

(***************************************************************************)
(* parse_field_path and apply_change on their own: a field path is parsed  *)
(* and, when it parses, the change is applied to a document, the same      *)
(* change again to what the first application left.                        *)
(***************************************************************************)
MaxSegments == 2
MaxRuns == 2

sK == <<"K">>
sV == <<"V">>

TokenPool ==
    { <<"a">>, <<"b">>, sEnv, sKey, sName, <<>>,
      sEnv \o <<"[">> \o sKey \o <<"=">> \o sK \o <<"]">>,
      sEnv \o <<"[">> \o sName \o <<"=">> \o sK \o <<"]">>,
      <<"c","[","i","d","=","K","]">>,
      <<"e","[","k","=","]">>,
      sEnv \o <<"[">> \o sKey \o <<"=">> \o sK \o <<"]", "\n">> }

Prefixes ==
    { <<>>, <<sSpec>>, <<sSpec, sWorkloadOverrides>>, <<sSpec, sTraitOverrides>>,
      <<sNotspec, sWorkloadOverrides>>, <<sSpec, sUnknownCategory>> }

TokenSeqs == UNION { [1..n -> TokenPool] : n \in 0..MaxSegments }

FieldPaths ==
    { IF p \o ts = <<>> THEN <<>> ELSE Path(p \o ts) : p \in Prefixes, ts \in TokenSeqs }

Entry(k, val) == MapNode(<< <<k, StrNode(val)>> >>)

Documents ==
    { EmptyMap,
      MapNode(<< << <<"a">>, StrNode(<<"s">>)>> >>),
      MapNode(<< << <<"a">>, Entry(<<"b">>, <<"o">>)>> >>),
      MapNode(<< <<sEnv, ListNode(<< MapNode(<< <<sKey, StrNode(sK)>>,
                                               <<sValue, StrNode(<<"o">>)>> >>) >>)>> >>),
      MapNode(<< <<sEnv, ListNode(<< Entry(sName, sK) >>)>> >>),
      MapNode(<< <<sEnv, ListNode(<< Entry(sName, sK), Entry(sKey, sK) >>)>>,
                 << <<"c">>, ListNode(<< Entry(sName, sK), Entry(sKey, sK) >>)>> >>),
      MapNode(<< <<sEnv, ListNode(<< Entry(sKey, <<"Z">>), Entry(sKey, sK),
                                     MapNode(<< <<sKey, StrNode(sK)>>,
                                                <<sValue, StrNode(<<"2">>)>> >>) >>)>> >>),
      MapNode(<< <<sEnv, StrNode(<<"s">>)>> >>),
      MapNode(<< <<sEnv, ListNode(<< StrNode(<<"s">>) >>)>> >>) }

Values == { sV, sK }

EngineInit ==
    /\ arg_field_path \in FieldPaths
    /\ arg_value \in Values
    /\ document \in Documents
    /\ parse_result = [called |-> FALSE]
    /\ apply_result = <<>>
    /\ before = <<>>
    /\ runs = 0
    /\ PatchIdle
    /\ ParserIdle
    /\ RestIdle

Parsed(r) ==
    [called |-> TRUE, ok |-> r.ok, err |-> r.err,
     override_key |-> r.override_key, path_segments |-> r.path_segments]

\* parse_field_path(field_path)
Parse ==
    /\ ~parse_result.called
    /\ parse_result' = Parsed(parse_field_path(arg_field_path))
    /\ UNCHANGED <<patch_vars, parser_vars, rest_vars, arg_field_path, arg_value, document,
                   apply_result, before, runs>>

Applied(r) ==
    /\ document' = r.doc
    /\ apply_result' = Append(apply_result, [ok |-> r.ok, err |-> r.err])
    /\ before' = Append(before, document)
    /\ runs' = runs + 1

\* apply_change(document, segments, value), the document mutated in place
Apply ==
    /\ parse_result.called
    /\ parse_result.ok
    /\ runs < MaxRuns
    /\ Applied(apply_change(document, parse_result.path_segments, arg_value))
    /\ UNCHANGED <<patch_vars, parser_vars, rest_vars, arg_field_path, arg_value, parse_result>>

EngineNext == Parse \/ Apply

EngineSpec == EngineInit /\ [][EngineNext]_vars

(***************************************************************************)
(* Vocabulary of the properties of parse_field_path and apply_change.      *)
(***************************************************************************)
Segments == parse_result.path_segments

\* The document before the latest application and its result.
Prior == before[runs]
Latest == apply_result[runs]

Items(node) == [i \in 1..Len(node.c) |-> node.c[i][2]]

Least(S) == CHOOSE i \in S : \A j \in S : i <= j

(***************************************************************************)
(* C16.  apply_change is idempotent: when the first application of         *)
(* (segments, value) to a document succeeded, the second application of    *)
(* the same change to what it left succeeds and leaves the document as it  *)
(* found it; no array has grown.                                            *)
(* The entry a selector made or matched is looked up again by the value    *)
(* the change itself has overwritten.                                       *)
(***************************************************************************)
C16_ApplyChangeIdempotent ==
    (runs = 2 /\ apply_result[1].ok) =>
        /\ apply_result[2].ok
        /\ document = before[2]

\* The same for the changes that do not write the field their selector
\* matched on (the selector's matchKey, 'key' or 'name').
WritesMatchField ==
    \E i \in 1..(Len(Segments) - 1) :
        /\ Segments[i].sel
        /\ ~Segments[Len(Segments)].sel
        /\ Segments[Len(Segments)].f \in {Segments[i].k, sKey, sName}

C16_IdempotentOffTheMatchField ==
    (runs = 2 /\ apply_result[1].ok /\ ~WritesMatchField) =>
        /\ apply_result[2].ok
        /\ document = before[2]

(***************************************************************************)
(* C17.  Whenever the last segment of the path is an array selector,       *)
(* apply_change fails with the error "array selector cannot be the final   *)
(* segment", whatever the document and whether or not an entry matches;    *)
(* parse_field_path has accepted the path.                                  *)
(* On a document whose field is not a list of mappings the code raises     *)
(* another exception before it looks at is_last.                            *)
(***************************************************************************)
LastIsSelector == Segments # <<>> /\ Segments[Len(Segments)].sel

C17_TerminalSelectorFailsAsTerminal ==
    (runs >= 1 /\ LastIsSelector) =>
        /\ parse_result.ok
        /\ ~Latest.ok
        /\ Latest.err = "array_selector_terminal"

\* It never succeeds, and fails as terminal unless the traversal met a
\* value of the wrong type.
C17_TerminalSelectorNeverSucceeds ==
    (runs >= 1 /\ LastIsSelector) =>
        /\ parse_result.ok
        /\ ~Latest.ok
        /\ Latest.err \in {"array_selector_terminal", "type_error"}

(***************************************************************************)
(* C18.  When the path starts with an array selector (arrayField,          *)
(* matchKey, matchValue) that is not its last segment and arrayField is    *)
(* absent or a list of mappings, the application changes one entry of the  *)
(* list and nothing else: the first entry whose matchKey is matchValue;    *)
(* if there is none, the first whose 'key' is matchValue; if there is      *)
(* none, the first whose 'name' is matchValue (the alternate equal to      *)
(* matchKey is not tried); if there is none, a new last entry              *)
(* {matchKey: matchValue}.  The other entries keep their values and        *)
(* places and the list is at most one entry longer.                         *)
(***************************************************************************)
Matching(items, k, val) ==
    { i \in 1..Len(items) : HasKey(items[i], k) /\ MapGet(items[i], k, EmptyMap) = StrNode(val) }

\* The entry the claim names: its place in the list, 0 for a new one.
Chosen(items, seg) ==
    IF Matching(items, seg.k, seg.v) # {} THEN Least(Matching(items, seg.k, seg.v))
    ELSE IF seg.k # sKey /\ Matching(items, sKey, seg.v) # {}
    THEN Least(Matching(items, sKey, seg.v))
    ELSE IF seg.k # sName /\ Matching(items, sName, seg.v) # {}
    THEN Least(Matching(items, sName, seg.v))
    ELSE 0

SelectorCase ==
    /\ runs >= 1
    /\ Len(Segments) >= 2
    /\ Segments[1].sel
    /\ MapGet(Prior, Segments[1].f, EmptyList).t = "list"
    /\ \A i \in 1..Len(MapGet(Prior, Segments[1].f, EmptyList).c) :
          MapGet(Prior, Segments[1].f, EmptyList).c[i][2].t = "map"

Descended(old, new, seg, at) ==
    /\ Len(new) = IF at = 0 THEN Len(old) + 1 ELSE Len(old)
    /\ \A i \in 1..Len(old) : i # at => new[i] = old[i]
    /\ at = 0 =>
          new[Len(new)] = apply_change(Entry(seg.k, seg.v), Tail(Segments), arg_value).doc
    /\ at # 0 => new[at] = apply_change(old[at], Tail(Segments), arg_value).doc

C18_SelectorPicksItsEntry ==
    SelectorCase =>
        /\ document.t = "map"
        /\ HasKey(document, Segments[1].f)
        /\ MapGet(document, Segments[1].f, EmptyMap).t = "list"
        /\ \A i \in 1..Len(Prior.c) :
              Prior.c[i][1] # Segments[1].f => document.c[i] = Prior.c[i]
        /\ Len(document.c) = Len(Prior.c) + (IF HasKey(Prior, Segments[1].f) THEN 0 ELSE 1)
        /\ Descended(Items(MapGet(Prior, Segments[1].f, EmptyList)),
                     Items(MapGet(document, Segments[1].f, EmptyList)),
                     Segments[1],
                     Chosen(Items(MapGet(Prior, Segments[1].f, EmptyList)), Segments[1]))

\* env[key=K].a on {env: [{name: K}]}: the entry is reused through 'name'.
C18_Witness ==
    /\ runs = 1
    /\ Segments = <<SelSeg(sEnv, sKey, sK), KeySeg(<<"a">>)>>
    /\ before[1] = MapNode(<< <<sEnv, ListNode(<< Entry(sName, sK) >>)>> >>)
    /\ document = MapNode(<< <<sEnv, ListNode(<<
                       MapNode(<< <<sName, StrNode(sK)>>, << <<"a">>, StrNode(arg_value)>> >>) >>)>> >>)

\* c[id=K].a on {c: [{name: K}, {key: K}]}: 'key' is tried before 'name'.
C18_WitnessKeyBeforeName ==
    /\ runs = 1
    /\ Segments = <<SelSeg(<<"c">>, <<"i","d">>, sK), KeySeg(<<"a">>)>>
    /\ Len(MapGet(Prior, <<"c">>, EmptyList).c) = 2
    /\ HasKey(Items(MapGet(document, <<"c">>, EmptyList))[2], <<"a">>)

(***************************************************************************)
(* C20.  parse_field_path succeeds exactly if the path cut at its dots     *)
(* has at least 3 tokens, the first is spec and the second one of the      *)
(* three categories; it then returns the category and one segment per      *)
(* remaining token in order, a selector for a token of the form            *)
(* word[word=value] and a plain key otherwise.  Fewer than 3 tokens or a   *)
(* first token other than spec is the invalid-field-path error, an unknown *)
(* second token the unsupported-category error.                             *)
(* The regular expression's $ also accepts the form followed by a newline. *)
(***************************************************************************)
DotsOf(s) == { i \in 1..Len(s) : s[i] = "." }

\* j-th token of s: between the (j-1)-th and the j-th dot.
TokenStart(s, j) ==
    IF j = 1 THEN 1
    ELSE 1 + CHOOSE i \in DotsOf(s) : Cardinality({ d \in DotsOf(s) : d <= i }) = j - 1

TokenEnd(s, j) ==
    IF j = Cardinality(DotsOf(s)) + 1 THEN Len(s)
    ELSE (CHOOSE i \in DotsOf(s) : Cardinality({ d \in DotsOf(s) : d <= i }) = j) - 1

TokenOf(s, j) == SubSeq(s, TokenStart(s, j), TokenEnd(s, j))

\* tok is f[k=val] with f, k words and val free of "]": the segment it names.
SelectorForms(tok) ==
    { SelSeg(SubSeq(tok, 1, p - 1), SubSeq(tok, p + 1, q - 1), SubSeq(tok, q + 1, Len(tok) - 1)) :
        <<p, q>> \in { pq \in (1..Len(tok)) \X (1..Len(tok)) :
                         /\ 1 < pq[1] /\ pq[1] + 1 < pq[2] /\ pq[2] + 1 < Len(tok)
                         /\ tok[pq[1]] = "[" /\ tok[pq[2]] = "=" /\ tok[Len(tok)] = "]"
                         /\ AllWord(SubSeq(tok, 1, pq[1] - 1))
                         /\ AllWord(SubSeq(tok, pq[1] + 1, pq[2] - 1))
                         /\ \A i \in (pq[2] + 1)..(Len(tok) - 1) : tok[i] # "]" } }

SegmentOf(tok) ==
    IF SelectorForms(tok) # {} THEN CHOOSE s \in SelectorForms(tok) : TRUE ELSE KeySeg(tok)

WellFormed(s) ==
    /\ Cardinality(DotsOf(s)) + 1 >= 3
    /\ TokenOf(s, 1) = sSpec

KnownCategory(s) ==
    TokenOf(s, 2) \in {sWorkloadOverrides, sComponentTypeEnvOverrides, sTraitOverrides}

C20_ParseFieldPath ==
    parse_result.called =>
        /\ parse_result.ok <=> (WellFormed(arg_field_path) /\ KnownCategory(arg_field_path))
        /\ ~WellFormed(arg_field_path) => parse_result.err = "invalid_field_path"
        /\ (WellFormed(arg_field_path) /\ ~KnownCategory(arg_field_path)) =>
              parse_result.err = "unsupported_override_category"
        /\ parse_result.ok =>
              /\ parse_result.override_key = TokenOf(arg_field_path, 2)
              /\ Len(Segments) = Cardinality(DotsOf(arg_field_path)) - 1
              /\ \A j \in 1..Len(Segments) :
                    Segments[j] = SegmentOf(TokenOf(arg_field_path, j + 2))

\* The same for the paths none of whose tokens ends in a newline.
NoNewline(s) == \A i \in 1..Len(s) : s[i] # "\n"

C20_ParseFieldPathOfOneLine ==
    NoNewline(arg_field_path) => C20_ParseFieldPath

(***************************************************************************)
(* C28.  When apply_change fails because the last segment is an array      *)
(* selector, the document it was given is as before the call: no list was  *)
(* created under the array field and no entry was appended.                *)
(* The code creates the list and appends the entry before it looks at      *)
(* is_last.                                                                 *)
(***************************************************************************)
C28_TerminalFailureLeavesDocument ==
    (runs >= 1 /\ Latest.err = "array_selector_terminal") => document = Prior

\* What does hold: the document changes only when the call had to create
\* the list or the entry; a second failing call finds both and adds nothing.
C28_SecondTerminalFailureAddsNothing ==
    (runs = 2 /\ apply_result[1].err = "array_selector_terminal") =>
        /\ apply_result[2].err = "array_selector_terminal"
        /\ document = before[2]

(***************************************************************************)
(* C23.  The binding lookup is built before patch_started and only read    *)
(* afterwards: once patch_started is out, no step changes a BindingInfo or *)
(* its raw document and no step invokes list_components or                 *)
(* list_release_bindings; so in every state after patch_started, and at    *)
(* patch_done, each raw document of the lookup is the one enumeration      *)
(* returned.                                                                *)
(***************************************************************************)
ListCalls ==
    {i \in 1..Len(calls) : calls[i].tool \in {"list_components", "list_release_bindings"}}

Started == EventsOf("patch_started") # {}

\* What list_release_bindings returned for the binding named name.
Enumerated(name) ==
    LET i == CHOOSE j \in 1..Len(GatewayInit) :
                 MapGet(GatewayInit[j].doc, sName, EmptyMap) = StrNode(name)
    IN  GatewayInit[i].doc

C23_LookupIsReadOnly ==
    /\ [](Started =>
            \A i \in 1..Len(binding_lookup) :
                binding_lookup[i].raw = Enumerated(binding_lookup[i].name))
    /\ [][Started => (binding_lookup' = binding_lookup /\ ListCalls' = ListCalls)]_vars

\* patch_done after a patch of b1 went through: the gateway's document has
\* moved on, the lookup's has not.
C23_Witness ==
    /\ EventsOf("patch_done") # {}
    /\ \E c \in PatchCalls : calls[c].ok /\ calls[c].binding_name = sB1
    /\ \E i \in 1..Len(binding_lookup) :
          /\ binding_lookup[i].name = sB1
          /\ binding_lookup[i].raw = BindingB1
          /\ gateway[1].doc # BindingB1

(***************************************************************************)
(* C29.  For a dispatched action with at least one malformed change (bad   *)
(* resource reference, bad field path, unsupported override category or    *)
(* terminal array selector), wherever the change stands and however many   *)
(* bindings the action names, no patch_release_binding call is made for    *)
(* that action.                                                             *)
(* A terminal selector is found only when its group is built, after the    *)
(* groups before it have been patched.                                      *)
(***************************************************************************)
MalformedChange(ch) ==
    \/ ~parse_resource_ref(ch.resource).ok
    \/ ~parse_field_path(ch.field_path).ok
    \/ LET segs == parse_field_path(ch.field_path).path_segments
       IN  segs[Len(segs)].sel

HasMalformedChange(n) ==
    \E i \in 1..Len(indexed_actions[n].action.changes) :
        MalformedChange(indexed_actions[n].action.changes[i])

C29_MalformedActionMakesNoCall ==
    \A n \in 1..Len(indexed_actions) :
        HasMalformedChange(n) => \A c \in PatchCalls : calls[c].k # n

\* What does hold: no call for an action one of whose changes does not
\* parse, and no call for the group whose building raised.
C29_UnparsableActionMakesNoCall ==
    \A n \in 1..Len(indexed_actions) :
        /\ (\E i \in 1..Len(indexed_actions[n].action.changes) :
               LET ch == indexed_actions[n].action.changes[i]
               IN  ~parse_resource_ref(ch.resource).ok \/ ~parse_field_path(ch.field_path).ok)
             => \A c \in PatchCalls : calls[c].k # n
        /\ \A c \in PatchCalls :
               calls[c].k = n =>
                   \A i \in 1..Len(Asked(n).grouped[calls[c].g].changes) :
                       LET segs == Asked(n).grouped[calls[c].g].changes[i].path_segments
                       IN  ~segs[Len(segs)].sel

(***************************************************************************)
(* Several runs of stream_patch against one gateway.  A run is suspended   *)
(* at each awaited gateway call (list_components, list_release_bindings    *)
(* per component, patch_release_binding per group), and another run may    *)
(* take its steps there; what lies between two calls is one step.  Each    *)
(* run dispatches one REVISED action; events and counters are left out.    *)
(***************************************************************************)
Runs == {1, 2}

RunInputs == { <<chA>>, <<chC>>, <<chT>>, <<chMiss, chA5>>, <<chTerm>> }

RunStart(changes) ==
    [pc |-> "list_components", changes |-> changes, lookup |-> <<>>, comp |-> 0,
     groups |-> Scan(changes, [err |-> "", skipped |-> <<>>, grouped |-> <<>>]).grouped,
     grp |-> 0]

ConcInit ==
    /\ c_gateway = GatewayInit
    /\ c_calls = <<>>
    /\ c_run \in [Runs -> {RunStart(changes) : changes \in RunInputs}]
    /\ PatchIdle
    /\ ParserIdle
    /\ EngineIdle
    /\ ChatIdle
    /\ XfIdle

\* Mutation: the lookup is one object shared by all runs.
PublishShared(run, r, lookup) ==
    [q \in Runs |-> IF q = r THEN [run[q] EXCEPT !.lookup = lookup, !.comp = @ + 1]
                    ELSE [run[q] EXCEPT !.lookup = lookup]]

\* lines 125, 202: lookup is a dict created by this call of
\* _build_binding_lookup and bound to this run's binding_lookup
Publish(run, r, lookup) == [run EXCEPT ![r].lookup = lookup, ![r].comp = @ + 1]

\* lines 117-125
CListComponents(r) ==
    /\ c_run[r].pc = "list_components"
    /\ c_run' = [c_run EXCEPT ![r].pc = "list_bindings", ![r].comp = 1]
    /\ UNCHANGED <<patch_vars, parser_vars, engine_vars, chat_vars, xf_vars, c_gateway, c_calls>>

\* lines 126-144: the bindings of one component, as the gateway holds them
\* now, enter the run's lookup
CListBindings(r) ==
    /\ c_run[r].pc = "list_bindings"
    /\ c_run[r].comp <= Len(GatewayComponents)
    /\ c_run' = Publish(c_run, r,
                        LookupPutAll(c_run[r].lookup, GatewayComponents[c_run[r].comp],
                                     GatewayBindings(c_gateway, GatewayComponents[c_run[r].comp])))
    /\ UNCHANGED <<patch_vars, parser_vars, engine_vars, chat_vars, xf_vars, c_gateway, c_calls>>

\* lines 208-253: the lookup is built, the action's groups are taken up
CStartGroups(r) ==
    /\ c_run[r].pc = "list_bindings"
    /\ c_run[r].comp > Len(GatewayComponents)
    /\ c_run' = [c_run EXCEPT ![r].pc = "apply", ![r].grp = 1]
    /\ UNCHANGED <<patch_vars, parser_vars, engine_vars, chat_vars, xf_vars, c_gateway, c_calls>>

CGroup(r) == c_run[r].groups[c_run[r].grp]

CBuilt(r) == BuildOverrides(LookupGet(c_run[r].lookup, CGroup(r).name), CGroup(r).changes, <<>>)

CAtGroup(r) == c_run[r].pc = "apply" /\ c_run[r].grp <= Len(c_run[r].groups)

\* lines 254-265: the binding is not in the run's lookup
CMissing(r) ==
    /\ CAtGroup(r)
    /\ ~LookupHas(c_run[r].lookup, CGroup(r).name)
    /\ c_run' = [c_run EXCEPT ![r].grp = @ + 1]
    /\ UNCHANGED <<patch_vars, parser_vars, engine_vars, chat_vars, xf_vars, c_gateway, c_calls>>

\* lines 270-275, 301-311: apply_change raises, the action is over
CApplyRaises(r) ==
    /\ CAtGroup(r)
    /\ LookupHas(c_run[r].lookup, CGroup(r).name)
    /\ ~CBuilt(r).ok
    /\ c_run' = [c_run EXCEPT ![r].pc = "done"]
    /\ UNCHANGED <<patch_vars, parser_vars, engine_vars, chat_vars, xf_vars, c_gateway, c_calls>>

CCall(r, ok, applied) ==
    [run |-> r, binding_name |-> CGroup(r).name, overrides |-> CBuilt(r).overrides,
     ok |-> ok, applied |-> applied]

\* lines 270-299: the group's documents are built from deep copies of the
\* lookup's and sent; the gateway replaces each parameter it is given.  A
\* call that raises may or may not have been applied and ends the action.
CPatch(r) ==
    /\ CAtGroup(r)
    /\ LookupHas(c_run[r].lookup, CGroup(r).name)
    /\ CBuilt(r).ok
    /\ \E ok \in BOOLEAN, applied \in BOOLEAN :
          /\ ok => applied
          /\ c_calls' = Append(c_calls, CCall(r, ok, applied))
          /\ c_gateway' = IF applied
                          THEN GatewayPatch(c_gateway, CGroup(r).name, CBuilt(r).overrides)
                          ELSE c_gateway
          /\ c_run' = IF ok THEN [c_run EXCEPT ![r].grp = @ + 1]
                      ELSE [c_run EXCEPT ![r].pc = "done"]
    /\ UNCHANGED <<patch_vars, parser_vars, engine_vars, chat_vars, xf_vars>>

\* lines 253, 313: the groups are exhausted
CGroupsDone(r) ==
    /\ c_run[r].pc = "apply"
    /\ c_run[r].grp > Len(c_run[r].groups)
    /\ c_run' = [c_run EXCEPT ![r].pc = "done"]
    /\ UNCHANGED <<patch_vars, parser_vars, engine_vars, chat_vars, xf_vars, c_gateway, c_calls>>

ConcNext ==
    \E r \in Runs :
        \/ CListComponents(r)
        \/ CListBindings(r)
        \/ CStartGroups(r)
        \/ CMissing(r)
        \/ CApplyRaises(r)
        \/ CPatch(r)
        \/ CGroupsDone(r)

ConcSpec == ConcInit /\ [][ConcNext]_vars

(***************************************************************************)
(* C24.  With two runs against the same gateway, a step of one run never   *)
(* changes the other run's lookup or position; every document a run sends  *)
(* is built from its own lookup and its own changes; and the gateway holds *)
(* for every binding and override parameter what the last applied patch    *)
(* call for them sent (what enumeration showed at the start if there was   *)
(* none), whichever run made it.  Nothing orders or checks the calls, so   *)
(* a state is reached in which one run's applied change is gone.            *)
(***************************************************************************)
AppliedCalls(name, param) ==
    { i \in 1..Len(c_calls) :
        /\ c_calls[i].applied
        /\ c_calls[i].binding_name = name
        /\ ParamIndex(c_calls[i].overrides, param) # 0 }

Greatest(S) == CHOOSE i \in S : \A j \in S : j <= i

SentFor(i, param) == c_calls[i].overrides[ParamIndex(c_calls[i].overrides, param)][2]

LastWriteWins ==
    \A b \in 1..Len(c_gateway), m \in 1..Len(OVERRIDE_PARAM_MAP) :
        LET name == MapGet(c_gateway[b].doc, sName, EmptyMap).v
            key == OVERRIDE_PARAM_MAP[m].key
            param == OVERRIDE_PARAM_MAP[m].param
        IN  IF AppliedCalls(name, param) = {}
            THEN MapGet(c_gateway[b].doc, key, NullNode) = MapGet(GatewayInit[b].doc, key, NullNode)
            ELSE MapGet(c_gateway[b].doc, key, NullNode)
                     = SentFor(Greatest(AppliedCalls(name, param)), param)

SentFromOwnLookup ==
    \A i \in 1..Len(c_calls) :
        \E g \in 1..Len(c_run[c_calls[i].run].groups) :
            /\ c_run[c_calls[i].run].groups[g].name = c_calls[i].binding_name
            /\ c_calls[i].overrides =
                   BuildOverrides(LookupGet(c_run[c_calls[i].run].lookup, c_calls[i].binding_name),
                                  c_run[c_calls[i].run].groups[g].changes, <<>>).overrides

C24_RunsIsolatedLastWriteWins ==
    /\ [](LastWriteWins /\ SentFromOwnLookup)
    /\ [][\A r \in Runs :
             c_run'[r] # c_run[r] => \A q \in Runs \ {r} : c_run'[q] = c_run[q]]_vars

\* Run 1 set a, run 2 set c, both calls returned: the gateway has c = 2 and
\* still a = 0.
C24_Witness ==
    /\ \A r \in Runs : c_run[r].pc = "done"
    /\ c_run[1].changes = <<chA>>
    /\ c_run[2].changes = <<chC>>
    /\ Len(c_calls) = 2
    /\ \A i \in 1..2 : c_calls[i].ok
    /\ MapGet(MapGet(c_gateway[1].doc, sWorkloadOverrides, EmptyMap), <<"a">>, NullNode)
          = StrNode(<<"0">>)
    /\ MapGet(MapGet(c_gateway[1].doc, sWorkloadOverrides, EmptyMap), <<"c">>, NullNode)
          = StrNode(<<"2">>)

(***************************************************************************)
(* stream_chat (agent.py, lines 169-239).  The agent's text blocks carry   *)
(* the next characters of the streamed text; a block that is skipped (a    *)
(* chunk whose content is no string, a tool_call_chunk without a name, an  *)
(* empty text) changes nothing and is a stuttering step.                   *)
(***************************************************************************)
MaxToolCalls == 1

\* the message key twice, the later value longer and no extension
StreamMessageTwice ==
    <<"{", "\"", "m", "e", "s", "s", "a", "g", "e", "\"", ":", "\"", "a", "b", "\"", ",", "\"", "m", "e", "s", "s", "a", "g", "e", "\"", ":", "\"", "x", "y", "z", "\"", "}">>

ChatStreams == Streams \cup {StreamMessageTwice}

\* Python's truth value of a decoded JSON value
Truthy(node) ==
    CASE node.t = "null" -> FALSE
      [] node.t = "bool" -> node.v = <<"t","r","u","e">>
      [] node.t = "num" -> \E k \in 1..Len(node.v) : node.v[k] \in {"1","2","3","4","5","6","7","8","9"}
      [] OTHER -> PyLen(node) > 0

ChatToolCallEvent == [type |-> "tool_call"]

ChatMessageChunkEvent(delta) == [type |-> "message_chunk", content |-> delta]

ChatActionsEvent(actions) == [type |-> "actions", actions |-> actions]

ChatDoneEvent(message) == [type |-> "done", message |-> message]

ChatErrorEvent == [type |-> "error"]

ChatInit ==
    /\ stream \in ChatStreams
    /\ fed = 0
    /\ _buffer = <<>>
    /\ _message = StrNode(<<>>)
    /\ _actions = EmptyList
    /\ last = NoPush
    /\ chat_pc = "create"
    /\ chat_events = <<>>
    /\ PatchIdle
    /\ EngineIdle
    /\ ConcIdle
    /\ XfIdle

\* lines 181-188
ChatCreate ==
    /\ chat_pc = "create"
    /\ chat_pc' = "stream"
    /\ UNCHANGED <<patch_vars, parser_vars, engine_vars, conc_vars, xf_vars, chat_events>>

\* lines 181-184, 232-239: CHAT_AGENT.create raises
ChatCreateFails ==
    /\ chat_pc = "create"
    /\ chat_pc' = "failed"
    /\ chat_events' = Append(chat_events, ChatErrorEvent)
    /\ UNCHANGED <<patch_vars, parser_vars, engine_vars, conc_vars, xf_vars>>

\* lines 202-214: a tool_call_chunk block with a name
ChatToolCall ==
    /\ chat_pc = "stream"
    /\ Cardinality({i \in 1..Len(chat_events) : chat_events[i].type = "tool_call"}) < MaxToolCalls
    /\ chat_events' = Append(chat_events, ChatToolCallEvent)
    /\ UNCHANGED <<patch_vars, parser_vars, engine_vars, conc_vars, xf_vars, chat_pc>>

\* lines 219-221, 232-239: what follows the call of push
AfterPush(out) ==
    /\ chat_pc' = IF out.raised THEN "failed" ELSE "stream"
    /\ chat_events' = IF out.raised THEN Append(chat_events, ChatErrorEvent)
                      ELSE IF out.ret.some /\ Truthy(out.ret.v)
                      THEN Append(chat_events, ChatMessageChunkEvent(out.ret.v))
                      ELSE chat_events

ChatPushed(chunk, out) == Pushed(chunk, out) /\ AfterPush(out)

\* lines 216-221: a text block with a text that is not empty
ChatText ==
    /\ chat_pc = "stream"
    /\ \E n \in 1..MaxChunk :
          /\ fed + n <= Len(stream)
          /\ fed' = fed + n
          /\ ChatPushed(SubSeq(stream, fed + 1, fed + n),
                        push([buffer |-> _buffer, message |-> _message, actions |-> _actions],
                             SubSeq(stream, fed + 1, fed + n)))
    /\ UNCHANGED <<patch_vars, engine_vars, conc_vars, xf_vars, stream>>

\* lines 191-194, 232-239: astream raises something else than a
\* StructuredOutputValidationError
ChatStreamRaises ==
    /\ chat_pc = "stream"
    /\ chat_pc' = "failed"
    /\ chat_events' = Append(chat_events, ChatErrorEvent)
    /\ UNCHANGED <<patch_vars, parser_vars, engine_vars, conc_vars, xf_vars>>

\* lines 222-223: astream raises StructuredOutputValidationError
ChatValidationError ==
    /\ chat_pc = "stream"
    /\ fed < Len(stream)
    /\ chat_pc' = "streamed"
    /\ UNCHANGED <<patch_vars, parser_vars, engine_vars, conc_vars, xf_vars, chat_events>>

\* lines 191-194: the stream is exhausted
ChatStreamEnds ==
    /\ chat_pc = "stream"
    /\ fed = Len(stream)
    /\ chat_pc' = "streamed"
    /\ UNCHANGED <<patch_vars, parser_vars, engine_vars, conc_vars, xf_vars, chat_events>>

\* Mutation: the actions event is emitted whatever the actions are.
EmitsActionsAlways(actions) == TRUE

\* line 226: if parser.actions
EmitsActions(actions) == Truthy(actions)

\* lines 226-227
ChatActions ==
    /\ chat_pc = "streamed"
    /\ EmitsActions(_actions)
    /\ chat_pc' = "actions_sent"
    /\ chat_events' = Append(chat_events, ChatActionsEvent(_actions))
    /\ UNCHANGED <<patch_vars, parser_vars, engine_vars, conc_vars, xf_vars>>

\* line 230
ChatDone ==
    /\ \/ chat_pc = "actions_sent"
       \/ chat_pc = "streamed" /\ ~EmitsActions(_actions)
    /\ chat_pc' = "end"
    /\ chat_events' = Append(chat_events, ChatDoneEvent(_message))
    /\ UNCHANGED <<patch_vars, parser_vars, engine_vars, conc_vars, xf_vars>>

ChatNext ==
    \/ ChatCreate
    \/ ChatCreateFails
    \/ ChatToolCall
    \/ ChatText
    \/ ChatStreamRaises
    \/ ChatValidationError
    \/ ChatStreamEnds
    \/ ChatActions
    \/ ChatDone

ChatSpec == ChatInit /\ [][ChatNext]_vars

(***************************************************************************)
(* Vocabulary of the chat stream's properties.                              *)
(***************************************************************************)
\* The characters of a string, the items of a list.
Parts(node) == IF node.t = "str" THEN node.v ELSE node.c

ChatEventsOf(type) == SelectSeq(chat_events, LAMBDA e : e.type = type)

RECURSIVE ChunksJoined(_)
ChunksJoined(chunks) ==
    IF chunks = <<>> THEN <<>>
    ELSE Parts(chunks[1].content) \o ChunksJoined(Tail(chunks))

Terminal(e) == e.type \in {"done", "error"}

LastEvent == chat_events[Len(chat_events)]

(***************************************************************************)
(* C26.  At every point of a chat stream the contents of the message_chunk *)
(* events, joined in order, are the parser's message, whatever the decodes *)
(* gave; once done is emitted they are done.message.                        *)
(***************************************************************************)
C26_ChunksJoinToTheMessage ==
    /\ ChunksJoined(ChatEventsOf("message_chunk")) = Parts(_message)
    /\ chat_pc = "end" => ChunksJoined(ChatEventsOf("message_chunk")) = Parts(LastEvent.message)

(***************************************************************************)
(* C30.  A chat stream that has ended emitted exactly one terminal event,  *)
(* done or error, as its last event, and emits nothing afterwards.  An     *)
(* actions event occurs at most once, directly before done, and carries    *)
(* the parser's actions, which are then not empty.  done carries the       *)
(* parser's message.  A stream that failed (the agent could not be made,   *)
(* the stream or push raised) ends with error and has no done, whatever    *)
(* was emitted before; after a validation error it ends with done.          *)
(***************************************************************************)
C30_Events ==
    /\ \A i \in 1..Len(chat_events) :
          /\ Terminal(chat_events[i]) => i = Len(chat_events)
          /\ chat_events[i].type = "actions" =>
                /\ Len(ChatEventsOf("actions")) = 1
                /\ chat_events[i].actions = _actions
                /\ Truthy(_actions)
                /\ IF i = Len(chat_events) THEN chat_pc = "actions_sent"
                   ELSE chat_events[i + 1].type = "done"
    /\ chat_pc \in {"end", "failed"} <=> (chat_events # <<>> /\ Terminal(LastEvent))
    /\ chat_pc = "end" => (LastEvent.type = "done" /\ LastEvent.message = _message)
    /\ chat_pc = "failed" => LastEvent.type = "error"
    /\ (last.pushed /\ last.raised) => chat_pc = "failed"
    /\ (chat_pc = "end" /\ Truthy(_actions)) => Len(ChatEventsOf("actions")) = 1

C30_OneTerminalEvent ==
    /\ [](C30_Events)
    /\ [][(chat_pc = "end" \/ chat_pc = "failed") => (chat_events' = chat_events /\ chat_pc' = chat_pc)]_vars
    /\ [][(chat_pc = "stream" /\ chat_pc' = "streamed") => chat_events' = chat_events]_vars

\* message chunks, then the actions, then done
C30_Witness ==
    /\ chat_pc = "end"
    /\ Len(chat_events) >= 3
    /\ chat_events[1].type = "message_chunk"
    /\ chat_events[Len(chat_events) - 1].type = "actions"
    /\ fed < Len(stream)

\* the stream raised after message chunks were emitted
C30_WitnessError ==
    /\ chat_pc = "failed"
    /\ LastEvent.type = "error"
    /\ Len(ChatEventsOf("message_chunk")) >= 2

(***************************************************************************)
(* _build_span_tree (output_transformer.py, lines 251-291).  A span is its *)
(* spanId, its parentSpanId (NoParent: the key is missing or None) and its *)
(* startTime, a number standing for a timestamp; the other fields of a     *)
(* span are carried along and left out.                                     *)
(***************************************************************************)
MaxSpans == 3

NoParent == "None"

SpanIds == {"", "A", "B", "C"}

StartTimes == {1, 2, 3}

Spans == [spanId : SpanIds, parentSpanId : SpanIds \cup {NoParent}, startTime : StartTimes]

\* the lists of at most MaxSpans spans with unique span IDs
SpanLists ==
    UNION { { l \in [1..n -> Spans] :
                \A i \in 1..n, j \in 1..n : l[i].spanId = l[j].spanId => i = j }
            : n \in 0..MaxSpans }

\* the recursion depth at which the interpreter raises RecursionError; it is
\* above every depth a tree of the spans has
RecursionLimit == MaxSpans + 2

\* line 256: the keys of span_map
SpanMapKeys(spans) == {spans[i].spanId : i \in 1..Len(spans)}

\* Python's truth value of a parent ID
TruthyId(id) == id # NoParent /\ id # ""

\* lines 259-263
IsRootSpan(spans, span) ==
    ~TruthyId(span.parentSpanId) \/ span.parentSpanId \notin SpanMapKeys(spans)

\* list.sort(key = startTime): stable, ascending
RECURSIVE SortByStartTime(_)
SortByStartTime(l) ==
    IF l = <<>> THEN <<>>
    ELSE LET least == CHOOSE i \in 1..Len(l) :
                        /\ \A j \in 1..Len(l) : l[i].startTime <= l[j].startTime
                        /\ \A j \in 1..(i - 1) : l[j].startTime > l[i].startTime
         IN  <<l[least]>> \o
             SortByStartTime([k \in 1..(Len(l) - 1) |-> IF k < least THEN l[k] ELSE l[k + 1]])

\* lines 275-277
ChildrenOf(spans, span_id) ==
    SortByStartTime(SelectSeq(spans, LAMBDA s : s.parentSpanId = span_id))

\* result is a list of the copies in span_map: an entry visited again is
\* appended again, and its depth is the one assigned last
Visited(acc, span_id, depth) ==
    [out |-> Append(acc.out, span_id),
     depth |-> [id \in DOMAIN acc.depth \cup {span_id} |->
                   IF id = span_id THEN depth ELSE acc.depth[id]],
     raised |-> FALSE]

RECURSIVE add_span_and_children(_, _, _, _, _)
RECURSIVE AddEach(_, _, _, _, _)
\* lines 268-280; frames counts the calls that are open
add_span_and_children(spans, span_id, depth, acc, frames) ==
    IF acc.raised THEN acc
    ELSE IF frames >= RecursionLimit THEN [acc EXCEPT !.raised = TRUE]
    ELSE IF span_id \notin SpanMapKeys(spans) THEN acc
    ELSE AddEach(spans, ChildrenOf(spans, span_id), depth + 1,
                 Visited(acc, span_id, depth), frames + 1)

\* lines 279-280, 286-287: the loop over children, or over the roots
AddEach(spans, todo, depth, acc, frames) ==
    IF todo = <<>> THEN acc
    ELSE AddEach(spans, Tail(todo), depth,
                 add_span_and_children(spans, todo[1].spanId, depth, acc, frames), frames)

\* lines 251-291
_build_span_tree(spans) ==
    LET acc == AddEach(spans,
                       SortByStartTime(SelectSeq(spans, LAMBDA s : IsRootSpan(spans, s))),
                       0, [out |-> <<>>, depth |-> <<>>, raised |-> FALSE], 0)
    IN  [done |-> TRUE,
         raised |-> acc.raised,
         result |-> IF acc.raised THEN <<>>
                    ELSE [k \in 1..Len(acc.out) |->
                            [spanId |-> acc.out[k], depth |-> acc.depth[acc.out[k]]]],
         \* line 256: span.copy(), the depth is set on the copy
         spans |-> spans]

SpanTreeInit ==
    /\ xf_in \in {[kind |-> "spans", spans |-> l] : l \in SpanLists}
    /\ xf_out = [done |-> FALSE]
    /\ PatchIdle
    /\ ParserIdle
    /\ EngineIdle
    /\ ConcIdle
    /\ ChatIdle

BuildSpanTree ==
    /\ xf_in.kind = "spans"
    /\ ~xf_out.done
    /\ xf_out' = _build_span_tree(xf_in.spans)
    /\ UNCHANGED <<patch_vars, parser_vars, engine_vars, conc_vars, chat_vars, xf_in>>

SpanTreeNext == BuildSpanTree

SpanTreeSpec == SpanTreeInit /\ [][SpanTreeNext]_vars

(***************************************************************************)
(* Vocabulary of the span tree's properties.                                *)
(***************************************************************************)
TreeIn == xf_in.spans

TreeOut == xf_out.result

SpanOf(id) == TreeIn[CHOOSE i \in 1..Len(TreeIn) : TreeIn[i].spanId = id]

SpanIndex(id) == CHOOSE i \in 1..Len(TreeIn) : TreeIn[i].spanId = id

\* a span with no parent, or with a parent ID that no span of the list has
IsForestRoot(span) ==
    span.parentSpanId = NoParent \/ span.parentSpanId \notin SpanMapKeys(TreeIn)

\* the parent chain of the span ends at a root of the forest
RECURSIVE ReachesRoot(_, _)
ReachesRoot(span, steps) ==
    IF IsForestRoot(span) THEN TRUE
    ELSE IF steps = 0 THEN FALSE
    ELSE ReachesRoot(SpanOf(span.parentSpanId), steps - 1)

OnOrBelowCycle(span) == ~ReachesRoot(span, Len(TreeIn))

\* a is a proper ancestor of the span
RECURSIVE HasAncestor(_, _, _)
HasAncestor(span, a, steps) ==
    IF IsForestRoot(span) \/ steps = 0 THEN FALSE
    ELSE \/ span.parentSpanId = a
         \/ HasAncestor(SpanOf(span.parentSpanId), a, steps - 1)

Below(k, i) == HasAncestor(SpanOf(TreeOut[k].spanId), TreeOut[i].spanId, Len(TreeIn))

OutPositions(id) == {k \in 1..Len(TreeOut) : TreeOut[k].spanId = id}

OncEach == \A id \in SpanMapKeys(TreeIn) : Cardinality(OutPositions(id)) <= 1

PreOrderForest ==
    /\ ~xf_out.raised
    /\ OncEach
    /\ \A i \in 1..Len(TreeIn) : IsForestRoot(TreeIn[i]) => OutPositions(TreeIn[i].spanId) # {}
    /\ \A k \in 1..Len(TreeOut) :
          LET span == SpanOf(TreeOut[k].spanId)
          IN  IF IsForestRoot(span) THEN TreeOut[k].depth = 0
              ELSE \E p \in 1..(k - 1) :
                      /\ TreeOut[p].spanId = span.parentSpanId
                      /\ TreeOut[k].depth = TreeOut[p].depth + 1
    /\ \A i \in 1..Len(TreeOut), j \in 1..Len(TreeOut) :
          LET a == SpanOf(TreeOut[i].spanId)
              b == SpanOf(TreeOut[j].spanId)
          IN  (/\ i < j
               /\ \/ IsForestRoot(a) /\ IsForestRoot(b)
                  \/ ~IsForestRoot(a) /\ ~IsForestRoot(b) /\ a.parentSpanId = b.parentSpanId)
              => /\ a.startTime <= b.startTime
                 /\ a.startTime = b.startTime => SpanIndex(a.spanId) < SpanIndex(b.spanId)
    /\ \A i \in 1..Len(TreeOut), j \in 1..Len(TreeOut), k \in 1..Len(TreeOut) :
          (i < j /\ j < k /\ Below(k, i)) => Below(j, i)
    /\ \A i \in 1..Len(TreeOut), k \in 1..Len(TreeOut) : Below(k, i) => i < k

(***************************************************************************)
(* C21.  For every list of spans with unique IDs the builder returns the   *)
(* pre-order traversal of the forest of the spans whose roots are the      *)
(* spans without a parent or with a parent ID no span has: every root is   *)
(* in it with depth 0, every other span in it comes after its parent with  *)
(* the parent's depth plus one, roots and siblings are in ascending        *)
(* start-time order with ties in input order, a span's descendants follow  *)
(* it without a gap, no span is in it twice.                                *)
(***************************************************************************)
C21_PreOrderOfTheForest == xf_out.done => PreOrderForest

\* the same for lists in which no span has the empty ID
C21_PreOrderWithoutEmptyId ==
    (xf_out.done /\ "" \notin SpanMapKeys(TreeIn)) => PreOrderForest

\* [A (no parent, first), B (parent A, later), C (parent A, between)]
\* gives [A depth 0, C depth 1, B depth 1]
C21_Example ==
    (/\ xf_out.done
     /\ TreeIn = << [spanId |-> "A", parentSpanId |-> NoParent, startTime |-> 1],
                    [spanId |-> "B", parentSpanId |-> "A", startTime |-> 3],
                    [spanId |-> "C", parentSpanId |-> "A", startTime |-> 2] >>)
    => TreeOut = << [spanId |-> "A", depth |-> 0], [spanId |-> "C", depth |-> 1],
                    [spanId |-> "B", depth |-> 1] >>

(***************************************************************************)
(* C27.  For every list of spans with unique IDs the builder returns: it   *)
(* does not recurse without end, also where parent references form a cycle *)
(* or a span names itself as parent.  No span is in the result twice, the  *)
(* spans left out are those on or below a parent cycle, so the result is a *)
(* permutation of the input exactly if there is none, and the caller's     *)
(* spans are as they were.                                                  *)
(***************************************************************************)
Terminates ==
    /\ ~xf_out.raised
    /\ OncEach
    /\ \A i \in 1..Len(TreeIn) :
          OutPositions(TreeIn[i].spanId) = {} <=> OnOrBelowCycle(TreeIn[i])
    /\ (Len(TreeOut) = Len(TreeIn) /\ \A i \in 1..Len(TreeIn) : OutPositions(TreeIn[i].spanId) # {})
          <=> (\A i \in 1..Len(TreeIn) : ~OnOrBelowCycle(TreeIn[i]))
    /\ xf_out.spans = TreeIn

C27_BuilderTerminates == xf_out.done => Terminates

\* the same for lists in which no span has the empty ID
C27_TerminatesWithoutEmptyId ==
    (xf_out.done /\ "" \notin SpanMapKeys(TreeIn)) => Terminates

(***************************************************************************)
(* _calculate_resource_pressure (output_transformer.py, lines 132-162).    *)
(* The values of a series are small naturals.  The quotients are exact: a  *)
(* number is a quotient num/den of two polynomials in e, the 1e-10 of the  *)
(* code, a polynomial being the sequence of its coefficients from e^0 on;  *)
(* rounding is left out.  Two such numbers with coefficients below 10^10   *)
(* are equal at e = 1e-10 exactly if they are equal as functions of e.     *)
(***************************************************************************)
MaxSeries == 2

SeriesValues == {0, 1, 2}

Series == UNION {[1..n -> SeriesValues] : n \in 0..MaxSeries}

Coef(p, k) == IF k \in 1..Len(p) THEN p[k] ELSE 0

PolyAdd(p, q) ==
    [k \in 1..(IF Len(p) >= Len(q) THEN Len(p) ELSE Len(q)) |-> Coef(p, k) + Coef(q, k)]

RECURSIVE Convolve(_, _, _, _)
\* the coefficient of e^(k-1) in p*q, summed over the first i terms of p
Convolve(p, q, k, i) ==
    IF i = 0 THEN 0 ELSE p[i] * Coef(q, k - i + 1) + Convolve(p, q, k, i - 1)

PolyMul(p, q) ==
    IF p = <<>> \/ q = <<>> THEN <<>>
    ELSE [k \in 1..(Len(p) + Len(q) - 1) |-> Convolve(p, q, k, Len(p))]

PolyEq(p, q) == \A k \in 1..(Len(p) + Len(q)) : Coef(p, k) = Coef(q, k)

Quot(num, den) == [num |-> num, den |-> den]

QuotEq(a, b) == PolyEq(PolyMul(a.num, b.den), PolyMul(b.num, a.den))

QuotAdd(a, b) ==
    Quot(PolyAdd(PolyMul(a.num, b.den), PolyMul(b.num, a.den)), PolyMul(a.den, b.den))

ZeroQuot == Quot(<<0>>, <<1>>)

Shorter(a, b) == IF Len(a) <= Len(b) THEN Len(a) ELSE Len(b)

RECURSIVE SumOfQuotients(_, _, _)
\* the sum of usage[i] / (counterpart[i] + 1e-10) over the first n points
SumOfQuotients(usage_values, counterpart, n) ==
    IF n = 0 THEN ZeroQuot
    ELSE QuotAdd(SumOfQuotients(usage_values, counterpart, n - 1),
                 Quot(<<usage_values[n]>>, <<counterpart[n], 1>>))

RECURSIVE SumOf(_, _)
SumOf(values, n) == IF n = 0 THEN 0 ELSE values[n] + SumOf(values, n - 1)

\* Mutation: the mean of the usage over the mean of the counterpart.
RatioOfMeans(usage_values, counterpart, n) ==
    Quot(<<SumOf(usage_values, n)>>, <<SumOf(counterpart, n), n>>)

\* lines 145, 154: np.mean(aligned_usage / (aligned + 1e-10))
MeanOfQuotients(usage_values, counterpart, n) ==
    Quot(SumOfQuotients(usage_values, counterpart, n).num,
         PolyMul(<<n>>, SumOfQuotients(usage_values, counterpart, n).den))

\* lines 146, 155: np.any(aligned_usage > aligned)
AnyAbove(usage_values, counterpart, n) ==
    \E i \in 1..n : usage_values[i] > counterpart[i]

\* lines 139-146 (and 148-155)
UsageTo(usage_values, counterpart) ==
    IF Len(counterpart) > 0
    THEN [ratio |-> MeanOfQuotients(usage_values, counterpart, Shorter(usage_values, counterpart)),
          exceeded |-> AnyAbove(usage_values, counterpart, Shorter(usage_values, counterpart))]
    ELSE [ratio |-> ZeroQuot, exceeded |-> FALSE]

\* lines 132-162
_calculate_resource_pressure(usage_values, request_values, limit_values) ==
    IF Len(usage_values) = 0
    THEN [done |-> TRUE, absent |-> TRUE]
    ELSE [done |-> TRUE, absent |-> FALSE,
          avg_usage_to_request_ratio |-> UsageTo(usage_values, request_values).ratio,
          avg_usage_to_limit_ratio |-> UsageTo(usage_values, limit_values).ratio,
          exceeded_requests |-> UsageTo(usage_values, request_values).exceeded,
          exceeded_limits |-> UsageTo(usage_values, limit_values).exceeded]

PressureInit ==
    /\ xf_in \in {[kind |-> "pressure", usage |-> u, request |-> r, limit |-> l] :
                    u \in Series, r \in Series, l \in Series}
    /\ xf_out = [done |-> FALSE]
    /\ PatchIdle
    /\ ParserIdle
    /\ EngineIdle
    /\ ConcIdle
    /\ ChatIdle

CalculateResourcePressure ==
    /\ xf_in.kind = "pressure"
    /\ ~xf_out.done
    /\ xf_out' = _calculate_resource_pressure(xf_in.usage, xf_in.request, xf_in.limit)
    /\ UNCHANGED <<patch_vars, parser_vars, engine_vars, conc_vars, chat_vars, xf_in>>

PressureNext == CalculateResourcePressure

PressureSpec == PressureInit /\ [][PressureNext]_vars

(***************************************************************************)
(* Vocabulary of the pressure's properties.                                 *)
(***************************************************************************)
RECURSIVE ProductBut(_, _, _)
\* the product of (counterpart[j] + e) over the first n points but point i
ProductBut(counterpart, n, i) ==
    IF n = 0 THEN <<1>>
    ELSE IF n = i THEN ProductBut(counterpart, n - 1, i)
    ELSE PolyMul(ProductBut(counterpart, n - 1, i), <<counterpart[n], 1>>)

RECURSIVE Numerators(_, _, _, _)
\* the sum over the points i <= k of usage[i] times the product but i
Numerators(usage_values, counterpart, n, k) ==
    IF k = 0 THEN <<0>>
    ELSE PolyAdd(Numerators(usage_values, counterpart, n, k - 1),
                 PolyMul(<<usage_values[k]>>, ProductBut(counterpart, n, k)))

\* ratio is the mean over the first n points of usage[i] / (counterpart[i] + e)
IsMeanOfQuotients(ratio, usage_values, counterpart, n) ==
    PolyEq(PolyMul(ratio.num, PolyMul(<<n>>, ProductBut(counterpart, n, 0))),
           PolyMul(ratio.den, Numerators(usage_values, counterpart, n, n)))

\* ratio is the mean of the first n usage values over the mean of the first
\* n counterpart values
IsRatioOfMeans(ratio, usage_values, counterpart, n) ==
    /\ SumOf(counterpart, n) # 0
    /\ PolyEq(PolyMul(ratio.num, <<SumOf(counterpart, n)>>),
              PolyMul(ratio.den, <<SumOf(usage_values, n)>>))

\* the same with the 1e-10 taken for 0, where no counterpart value is 0
IsRatioOfMeansNearly(ratio, usage_values, counterpart, n) ==
    (\A i \in 1..n : counterpart[i] # 0) =>
        ratio.num[1] * SumOf(counterpart, n) = ratio.den[1] * SumOf(usage_values, n)

PressurePart(counterpart, ratio, exceeded, is_ratio(_, _, _, _)) ==
    LET n == Shorter(xf_in.usage, counterpart)
    IN  IF counterpart = <<>> THEN ratio = ZeroQuot /\ ~exceeded
        ELSE /\ is_ratio(ratio, xf_in.usage, counterpart, n)
             /\ exceeded <=> \E i \in 1..n : xf_in.usage[i] > counterpart[i]

\* the points beyond the shorter length changed nothing
Truncated ==
    LET n == Shorter(xf_in.usage, xf_in.request)
        m == Shorter(xf_in.usage, xf_in.limit)
        short == _calculate_resource_pressure(SubSeq(xf_in.usage, 1, n),
                                              SubSeq(xf_in.request, 1, n), <<>>)
        shortl == _calculate_resource_pressure(SubSeq(xf_in.usage, 1, m), <<>>,
                                               SubSeq(xf_in.limit, 1, m))
    IN  /\ xf_in.request # <<>> =>
              /\ QuotEq(xf_out.avg_usage_to_request_ratio, short.avg_usage_to_request_ratio)
              /\ xf_out.exceeded_requests = short.exceeded_requests
        /\ xf_in.limit # <<>> =>
              /\ QuotEq(xf_out.avg_usage_to_limit_ratio, shortl.avg_usage_to_limit_ratio)
              /\ xf_out.exceeded_limits = shortl.exceeded_limits

Pressure(is_ratio(_, _, _, _)) ==
    xf_out.done =>
        /\ xf_out.absent <=> xf_in.usage = <<>>
        /\ ~xf_out.absent =>
              /\ PressurePart(xf_in.request, xf_out.avg_usage_to_request_ratio,
                              xf_out.exceeded_requests, is_ratio)
              /\ PressurePart(xf_in.limit, xf_out.avg_usage_to_limit_ratio,
                              xf_out.exceeded_limits, is_ratio)
              /\ Truncated

C25_RatioOfMeansNearly == Pressure(IsRatioOfMeansNearly)

MaxBlocks == 2

Mappings == {"d1", "d2"}

\* a block of a list content: no dict, a dict of another type, a text block
\* without text, with a text that is no JSON, with JSON that is no object,
\* with the JSON of a mapping
ContentBlocks ==
    {[is |-> k, mapping |-> ""] : k \in {"no_dict", "other_type", "no_text", "no_json", "json_list"}}
        \cup {[is |-> "json_dict", mapping |-> d] : d \in Mappings}

Contents ==
    {[form |-> "dict", mapping |-> d, serializable |-> s, blocks |-> <<>>] :
        d \in Mappings, s \in BOOLEAN}
      \cup {[form |-> "str", mapping |-> "", serializable |-> TRUE, blocks |-> <<>>]}
      \cup {[form |-> "list", mapping |-> "", serializable |-> TRUE, blocks |-> b] :
              b \in UNION {[1..n -> ContentBlocks] : n \in 0..MaxBlocks}}

EvidenceTools == {"get_component_logs", "get_project_logs",
                  "get_component_resource_metrics", "get_traces"}

ToolNames == EvidenceTools \cup {"list_components", "None"}

Insides == {"nothing", "rendered", "raises"}

NoMapping == [some |-> FALSE, mapping |-> "", serializable |-> TRUE]

\* lines 348-362
_extract_content(content) ==
    IF content.form = "dict"
    THEN [some |-> TRUE, mapping |-> content.mapping, serializable |-> content.serializable]
    ELSE IF content.form = "list"
              /\ \E k \in 1..Len(content.blocks) : content.blocks[k].is = "json_dict"
    THEN [some |-> TRUE,
          mapping |-> content.blocks[CHOOSE k \in 1..Len(content.blocks) :
                                        /\ content.blocks[k].is = "json_dict"
                                        /\ \A j \in 1..(k - 1) : content.blocks[j].is # "json_dict"
                                    ].mapping,
          serializable |-> TRUE]
    ELSE NoMapping

TextReturned(text) == [raised |-> FALSE, text |-> text]

TextRaised == [raised |-> TRUE, text |-> <<>>]

\* json.dumps(content)
json_dumps(extracted) ==
    IF extracted.serializable THEN TextReturned(<<"json", extracted.mapping>>) ELSE TextRaised

\* Mutation: the processor lets its exception out.
FallbackRaises(extracted) == TextRaised

\* lines 39-41, 73-75, 246-248, 331-333: except Exception
Fallback(extracted) == json_dumps(extracted)

\* lines 21-41, 44-75, 165-248, 294-333: one of the four processors
Processor(tool, extracted, inside) ==
    CASE inside = "nothing" -> TextReturned(<<"nothing", tool>>)
      [] inside = "rendered" -> TextReturned(<<"rendered", tool, extracted.mapping>>)
      [] inside = "raises" -> Fallback(extracted)

\* lines 336-345
get_processor(tool, extracted, inside) ==
    IF tool \in EvidenceTools THEN Processor(tool, extracted, inside)
    ELSE json_dumps(extracted)

\* lines 365-366
_to_mcp_content(text) ==
    [form |-> "mcp", mapping |-> "", serializable |-> TRUE, blocks |-> <<text>>]

ToolMessage(content, tool_call_id, name) ==
    [is_tool_message |-> TRUE, content |-> content, tool_call_id |-> tool_call_id, name |-> name]

\* lines 369-400, from the handler's result on
awrap_tool_call(tool, result, inside) ==
    IF ~result.is_tool_message
    THEN [done |-> TRUE, raised |-> FALSE, as_is |-> TRUE, result |-> result]
    ELSE IF ~_extract_content(result.content).some
    THEN [done |-> TRUE, raised |-> FALSE, as_is |-> TRUE, result |-> result]
    ELSE [done |-> TRUE, raised |-> FALSE, as_is |-> FALSE,
          result |-> ToolMessage(
              IF get_processor(tool, _extract_content(result.content), inside).raised
              THEN result.content
              ELSE _to_mcp_content(get_processor(tool, _extract_content(result.content), inside).text),
              result.tool_call_id, result.name)]

HandlerResults ==
    {[is_tool_message |-> FALSE, content |-> c, tool_call_id |-> "", name |-> ""] :
        c \in {x \in Contents : x.form = "dict"}}
      \cup {ToolMessage(c, "call_1", "tool") : c \in Contents}

MiddlewareInit ==
    /\ xf_in \in {[kind |-> "tool_call", tool |-> n, result |-> r, inside |-> i] :
                    n \in ToolNames, r \in HandlerResults, i \in Insides}
    /\ xf_out = [done |-> FALSE]
    /\ PatchIdle
    /\ ParserIdle
    /\ EngineIdle
    /\ ConcIdle
    /\ ChatIdle

WrapToolCall ==
    /\ xf_in.kind = "tool_call"
    /\ ~xf_out.done
    /\ xf_out' = awrap_tool_call(xf_in.tool, xf_in.result, xf_in.inside)
    /\ UNCHANGED <<patch_vars, parser_vars, engine_vars, conc_vars, chat_vars, xf_in>>

MiddlewareNext == WrapToolCall

MiddlewareSpec == MiddlewareInit /\ [][MiddlewareNext]_vars

(***************************************************************************)
(* C22.  The middleware returns for every result of the handler.  A result *)
(* that is no tool message, or whose content gives no mapping, comes back  *)
(* as it is.  Otherwise a tool message with the result's call ID and name  *)
(* comes back: where one of the four processors met an exception inside    *)
(* it holds the JSON serialization of the mapping, as one text block;      *)
(* where the processing raised all the same (the mapping cannot be         *)
(* serialized) it holds the result's own content.                           *)
(***************************************************************************)
Extracted == _extract_content(xf_in.result.content)

C22_ProcessingNeverAborts ==
    xf_out.done =>
        /\ ~xf_out.raised
        /\ (~xf_in.result.is_tool_message \/ ~Extracted.some) =>
              (xf_out.as_is /\ xf_out.result = xf_in.result)
        /\ (xf_in.result.is_tool_message /\ Extracted.some) =>
              /\ xf_out.result.is_tool_message
              /\ xf_out.result.tool_call_id = xf_in.result.tool_call_id
              /\ xf_out.result.name = xf_in.result.name
              /\ (xf_in.tool \in EvidenceTools /\ xf_in.inside = "raises" /\ Extracted.serializable)
                    => /\ xf_out.result.content.form = "mcp"
                       /\ xf_out.result.content.blocks = << <<"json", Extracted.mapping>> >>
              /\ ((xf_in.tool \notin EvidenceTools \/ xf_in.inside = "raises") /\ ~Extracted.serializable)
                    => /\ xf_out.result.content.form = xf_in.result.content.form
                       /\ xf_out.result.content = xf_in.result.content

\* the traces processor met an exception; the second block was the first to
\* hold a mapping, and its serialization comes back
C22_Witness ==
    /\ xf_out.done
    /\ xf_in.tool = "get_traces"
    /\ xf_in.inside = "raises"
    /\ xf_in.result.is_tool_message
    /\ xf_in.result.content.form = "list"
    /\ Len(xf_in.result.content.blocks) = 2
    /\ xf_in.result.content.blocks[1].is = "no_json"
    /\ xf_out.result.content.form = "mcp"
    /\ xf_out.result.content.blocks = << <<"json", "d2">> >>

\* the mapping cannot be serialized: the original content comes back
C22_WitnessOriginal ==
    /\ xf_out.done
    /\ xf_in.tool = "get_component_logs"
    /\ xf_in.inside = "raises"
    /\ ~Extracted.serializable
    /\ ~xf_out.as_is
    /\ xf_out.result.content = xf_in.result.content

====
